---------------------------- MODULE Spec2Model ----------------------------
(***************************************************************************)
(* Help desk and inventory application (app_mesa_ayuda_inventarios_        *)
(* streamlit.py): the ticket workflow, the approval centre and the         *)
(* password / session layer, as state machines over the database tables    *)
(* and the browser sessions.                                               *)
(*                                                                         *)
(* Text values (user names, e-mail addresses, tokens) are sequences of     *)
(* one-character strings, so that the string functions of the source       *)
(* (strip, lower, split, slicing, concatenation) are computed and not      *)
(* assumed.  Times are seconds since an arbitrary epoch.                   *)
(*                                                                         *)
(* The database file (APP_DB_PATH) outlives the process.  No statement of  *)
(* the program gives a user the role agente, and the INSERT of             *)
(* page_tickets_nuevo stores itil_type in column category, whose CHECK     *)
(* refuses 'Cambio' and 'Problema'.  The pages for agents and for Changes  *)
(* therefore run on rows that were in the file before: the ticket and      *)
(* approval specifications start from such a file (LegacyUsers,            *)
(* LegacyDatabases), every row of which the schema's constraints admit;    *)
(* the session specification starts from no file at all.                   *)
(***************************************************************************)
EXTENDS Integers, Sequences, FiniteSets, TLC

VARIABLES
    users,      \* table users: sequence of rows, id = position (AUTOINCREMENT)
    tickets,    \* table tickets: sequence of rows, id = position
    approvals,  \* table change_approvals: sequence of rows, id = position
    resets,     \* table password_resets: sequence of rows, id = position
    now,        \* the clock read by datetime.utcnow(), in seconds
    ssoSecret,  \* SSO_SECRET, read from APP_SSO_SECRET when the module loads
    auth,       \* per session: st.session_state["auth_user"], or NoUser
    qp,         \* per session: st.query_params (user, ts, sig), or NoParams
    pc,         \* per session: where its script run stands
    loc,        \* per session: the local variables of the run in progress
    last,       \* history: the last script run (who ran what, on what, outcome)
    how,        \* history: per session, the login inputs that set auth_user
    spent,      \* history: the tokens complete_password_reset returned True for
    sla_policies,   \* table sla_policies: sequence of rows, id = position
    priority_matrix,    \* table priority_matrix: <<urgency, impact>> -> priority
    masters,    \* the seeded master tables (warehouses, products, teams, ...):
                \* the set of <<table, unique key>> of their rows
    settings,   \* table settings: key -> value, for the keys that have a row
    schema,     \* the tables, and the columns of tickets and products, in the file
    service_catalog,    \* table service_catalog: sequence of rows, id = position
    service_priority_matrix,    \* <<catalog_id, urgency, impact>> -> priority
    stock,      \* table stock: <<product_id, warehouse_id>> -> qty, for the rows
    comments,   \* table ticket_comments: sequence of rows
    risk_rules, \* table risk_rules: set of rows
    risk,       \* the Change form: the inputs of auto_change_risk and its result
    call        \* a call of run_query / run_script in progress, or NoCall

\* the tables init_db writes besides users
seeded == <<sla_policies, priority_matrix, masters, settings, schema>>

\* what no run of main() writes before it renders its page
others == <<service_catalog, service_priority_matrix, stock, comments, risk_rules,
            risk, call>>

vars == <<users, tickets, approvals, resets, now, ssoSecret, auth, qp, pc, loc,
          last, how, spent, sla_policies, priority_matrix, masters, settings,
          schema, service_catalog, service_priority_matrix, stock, comments,
          risk_rules, risk, call>>

-----------------------------------------------------------------------------
(* Bounds of the model                                                      *)

MaxTickets == 1     \* rows of tickets
MaxUsers   == 2     \* rows of users created from an empty database
MaxResets  == 2     \* rows of password_resets
MaxTicks   == 3     \* clock steps of half an hour
MaxSsoTicks == 2    \* clock steps of one SSO window
MaxComments == 1    \* rows of ticket_comments
MaxDepth   == 4     \* frames of run_query, run_script and migrate_schema on the stack

Sessions == {"s1", "s2"}

-----------------------------------------------------------------------------
(* Text                                                                     *)

Lower(c) == IF c = "A" THEN "a" ELSE IF c = "V" THEN "v" ELSE c

LowerCase == {"a","b","c","d","e","f","g","h","i","j","k","l","m","n","o","p",
              "q","r","s","t","u","v","w","x","y","z"}
Digits    == <<"0","1","2","3","4","5","6","7","8","9">>
DigitSet  == {Digits[i] : i \in 1..10}

\* the characters re.sub(r"[^a-z0-9._-]+", "", ...) keeps
SlugChars == LowerCase \cup DigitSet \cup {".", "_", "-"}

RECURSIVE Filter(_, _)
Filter(s, keep) ==
    IF s = <<>> THEN <<>>
    ELSE IF Head(s) \in keep THEN <<Head(s)>> \o Filter(Tail(s), keep)
         ELSE Filter(Tail(s), keep)

RECURSIVE LStrip(_)
LStrip(s) == IF s # <<>> /\ Head(s) = " " THEN LStrip(Tail(s)) ELSE s

RECURSIVE RStrip(_)
RStrip(s) == IF s # <<>> /\ s[Len(s)] = " " THEN RStrip(SubSeq(s, 1, Len(s) - 1)) ELSE s

\* str.strip()
Strip(s) == RStrip(LStrip(s))

\* str.lower()
RECURSIVE ToLower(_)
ToLower(s) == IF s = <<>> THEN <<>> ELSE <<Lower(Head(s))>> \o ToLower(Tail(s))

\* s[:n]
Prefix(s, n) == SubSeq(s, 1, IF Len(s) < n THEN Len(s) ELSE n)

\* the position of the first c in s, or 0
RECURSIVE IndexFrom(_, _, _)
IndexFrom(s, c, i) ==
    IF i > Len(s) THEN 0 ELSE IF s[i] = c THEN i ELSE IndexFrom(s, c, i + 1)

\* c in s
Contains(s, c) == IndexFrom(s, c, 1) # 0

\* s.split(c)[0]
BeforeFirst(s, c) ==
    IF Contains(s, c) THEN SubSeq(s, 1, IndexFrom(s, c, 1) - 1) ELSE s

\* str(n) of a natural number
RECURSIVE Dec(_)
Dec(n) == IF n < 10 THEN <<Digits[n + 1]>>
          ELSE Dec(n \div 10) \o <<Digits[(n % 10) + 1]>>

Abs(x) == IF x < 0 THEN -x ELSE x

-----------------------------------------------------------------------------
(* Passwords, signatures                                                    *)

\* hash_password(p, salt) = sha256(salt + p): the digest stands for its input
hash_password(p, salt) == <<"sha256", salt \o p>>

\* hmac.new(key, msg, sha256).hexdigest(): the digest stands for its inputs
HmacSha256(key, msg) == <<"hmac-sha256", key, msg>>

\* f"{user}:{ts}"
SsoMessage(user, ts) == user \o <<":">> \o Dec(ts)

Salts == {<<"0">>, <<"1">>}          \* values of secrets.token_hex(8)
Pwds  == {<<"a","d","m","i","n">>, <<"q">>}   \* passwords typed or generated
Keys  == {<<>>, <<"k">>, <<"z">>}    \* keys a signature may have been made with

-----------------------------------------------------------------------------
(* Rows and session values                                                  *)

Roles    == {"admin", "agente", "visor"}
Statuses == {"Abierto", "En Progreso", "Resuelto", "Cerrado"}

NoUser   == [id |-> 0, username |-> <<>>, role |-> "", email |-> <<>>]
NoSig    == <<>>
NoParams == [user |-> <<>>, ts |-> 0, tsInt |-> FALSE, sig |-> NoSig]
NoLoc    == [row |-> 0, decision |-> "", ticket |-> 0, overall |-> "",
             token |-> <<>>, pwd |-> <<>>, code |-> <<>>, form |-> <<>>]
NoHow    == [via |-> "none"]
NoRisk   == [crit |-> "", change_impact |-> "", priority |-> "", result |-> ""]
NoCall   == [stack |-> <<>>, stmt |-> "", fn_calls |-> 0, migrations |-> 0,
             outcome |-> "", error |-> <<>>, first |-> <<>>, second |-> <<>>]

S_admin == <<"a","d","m","i","n">>
S_ana   == <<"a","n","a">>
S_vic   == <<"v","i","c">>
S_old   == <<"o","l","d">>
S_user  == <<"u","s","e","r">>
AtX     == <<"@","x">>      \* stands for "@example.com"

UserRow(name, email, pwd, salt, role, active) ==
    [username |-> name, email |-> email, password_hash |-> hash_password(pwd, salt),
     password_salt |-> salt, role |-> role, active |-> active]

\* the session value login_ui and try_sso_login build from a users row
SessionUser(us, i) ==
    [id |-> i, username |-> us[i].username, role |-> us[i].role, email |-> us[i].email]

\* ids of the rows of us with that username (username is UNIQUE: at most one)
ByUsername(us, name) == {i \in 1..Len(us) : us[i].username = name}

\* the first row of a non-empty result set
First(ids) == CHOOSE i \in ids : \A j \in ids : i <= j

-----------------------------------------------------------------------------
(* Database contents the program starts from                                *)

\* a database file that already holds users of the three roles and, possibly,
\* a Change ticket with its approval rows (rows the schema's CHECKs admit)
LegacyUsers ==
    << UserRow(S_admin, S_admin \o AtX, S_admin, <<"0">>, "admin", 1),
       UserRow(S_ana, S_ana \o AtX, S_admin, <<"1">>, "agente", 1),
       UserRow(S_vic, S_vic \o AtX, <<"q">>, <<"0">>, "visor", 1),
       UserRow(S_old, S_old \o AtX, <<"q">>, <<"0">>, "agente", 0) >>

\* the UTC day of a time in seconds
Day(t) == t \div (24 * 60 * 60)

\* f"{n:04d}"
Pad4(n) == [i \in 1..(4 - Len(Dec(n))) |-> "0"] \o Dec(n)

\* f"TCK-{utcnow().strftime('%Y%m%d')}-{n:04d}": the day number stands for
\* the date's eight digits
TicketCode(t, n) == <<"T", "C", "K", "-">> \o Dec(Day(t)) \o <<"-">> \o Pad4(n)

\* SELECT COUNT(*) FROM tickets WHERE DATE(created_at)=DATE('now')
TicketsOfDay(ts, t) == Cardinality({i \in 1..Len(ts) : Day(ts[i].created_at) = Day(t)})

\* code is UNIQUE: no row of ts has it
CodeFree(ts, code) == \A i \in 1..Len(ts) : ts[i].code # code

\* a ticket as the form with its default choices creates it at time 0 (no
\* service, urgency Media, impact Medio, the hours of the seeded policy)
TicketRow(itil, creator) ==
    [code |-> TicketCode(0, 1),
     itil_type |-> itil, status |-> "Abierto", assigned_to |-> 0,
     created_by |-> creator, approval_status |-> "Pendiente",
     priority |-> "Media", urgency |-> "Media", impact |-> "Medio",
     catalog_id |-> 0, response_sla_hours |-> 4, sla_hours |-> 48,
     created_at |-> 0, due_at |-> 48 * 3600, resolved_at |-> <<>>]

ApprovalRow(t, level, email) ==
    [ticket_id |-> t, level |-> level, approver_email |-> email,
     status |-> "Pendiente", approver |-> <<>>, decided_at |-> <<>>, comment |-> <<>>]

NoTickets == [tickets |-> <<>>, approvals |-> <<>>]

\* a Change with its two approval rows (Manager: ana, CAB: a mailbox)
ChangeToApprove ==
    [tickets |-> <<TicketRow("Cambio", 3)>>,
     approvals |-> <<ApprovalRow(1, "Manager", S_ana \o AtX),
                     ApprovalRow(1, "CAB", <<"c","a","b">> \o AtX)>>]

\* a Change that has no approval rows
ChangeBare == [tickets |-> <<TicketRow("Cambio", 2)>>, approvals |-> <<>>]

\* a Change whose two approval rows have been approved
ChangeApproved ==
    [tickets |-> <<[TicketRow("Cambio", 3) EXCEPT !.approval_status = "Aprobado"]>>,
     approvals |-> <<[ApprovalRow(1, "Manager", S_ana \o AtX) EXCEPT !.status = "Aprobado"],
                     [ApprovalRow(1, "CAB", <<"c","a","b">> \o AtX)
                        EXCEPT !.status = "Aprobado"]>>]

LegacyDatabases == {NoTickets, ChangeToApprove, ChangeBare, ChangeApproved}

-----------------------------------------------------------------------------
(* main(): what every script run does before it renders a page              *)

SSO_WINDOW == 600

\* a random draw that is only made when cond holds
Draw(cond, S) == IF cond THEN S ELSE {CHOOSE x \in S : TRUE}

\* init_db: the seed user, inserted while the users table is empty
InitDbUsers(us, salt) ==
    IF Len(us) = 0
    THEN <<UserRow(S_admin, S_admin \o AtX, S_admin, salt, "admin", 1)>>
    ELSE us

\* the checks without the ten-minute window
SsoAcceptsNoWindow(q, t) ==
    /\ ssoSecret # <<>>
    /\ q.sig # <<>> /\ q.user # <<>>
    /\ q.tsInt
    /\ HmacSha256(ssoSecret, SsoMessage(q.user, q.ts)) = q.sig

\* try_sso_login's checks on the query parameters q
SsoAccepts(q, t) ==
    /\ ssoSecret # <<>>
    /\ q.sig # <<>> /\ q.user # <<>>
    /\ q.tsInt
    /\ ~(Abs(t - q.ts) > SSO_WINDOW)
    /\ HmacSha256(ssoSecret, SsoMessage(q.user, q.ts)) = q.sig

\* the role try_sso_login gives an account it provisions
SsoRole == "visor"

\* try_sso_login on the users table us: the table and auth_user it leaves
TrySso(q, a, h, us, salt, pwd) ==
    IF ~SsoAccepts(q, now) THEN [users |-> us, auth |-> a, how |-> h]
    ELSE LET us1 == IF ByUsername(us, q.user) = {}
                    THEN Append(us, UserRow(q.user, q.user \o AtX, pwd, salt, SsoRole, 1))
                    ELSE us
             i   == First(ByUsername(us1, q.user))
         IN  [users |-> us1, auth |-> SessionUser(us1, i),
              how |-> [via |-> "sso", secret |-> ssoSecret, user |-> q.user,
                       ts |-> q.ts, sig |-> q.sig, at |-> now]]

Processes  == {"Incidente", "Solicitud", "Cambio", "Problema"}
Priorities == {"Baja", "Media", "Alta", "Critica"}
Urgencies  == {"Baja", "Media", "Alta", "Critica"}
Impacts    == {"Bajo", "Medio", "Alto", "Critico"}

PolicyRow(process, priority, response_hours, resolution_hours, active) ==
    [process |-> process, priority |-> priority, response_hours |-> response_hours,
     resolution_hours |-> resolution_hours, active |-> active]

\* init_db's list `defaults`
SeedPolicies ==
    << PolicyRow("Incidente", "Baja", 8, 72, 1),  PolicyRow("Incidente", "Media", 4, 48, 1),
       PolicyRow("Incidente", "Alta", 2, 24, 1),  PolicyRow("Incidente", "Critica", 1, 8, 1),
       PolicyRow("Solicitud", "Baja", 12, 96, 1), PolicyRow("Solicitud", "Media", 6, 72, 1),
       PolicyRow("Solicitud", "Alta", 2, 36, 1),  PolicyRow("Solicitud", "Critica", 1, 16, 1),
       PolicyRow("Cambio", "Media", 8, 72, 1),    PolicyRow("Problema", "Media", 8, 120, 1) >>

\* init_db's list `matrix`
SeedMatrixRows ==
    { <<"Baja", "Bajo", "Baja">>,     <<"Baja", "Medio", "Baja">>,
      <<"Baja", "Alto", "Media">>,    <<"Baja", "Critico", "Alta">>,
      <<"Media", "Bajo", "Baja">>,    <<"Media", "Medio", "Media">>,
      <<"Media", "Alto", "Alta">>,    <<"Media", "Critico", "Alta">>,
      <<"Alta", "Bajo", "Media">>,    <<"Alta", "Medio", "Alta">>,
      <<"Alta", "Alto", "Alta">>,     <<"Alta", "Critico", "Critica">>,
      <<"Critica", "Bajo", "Alta">>,  <<"Critica", "Medio", "Alta">>,
      <<"Critica", "Alto", "Critica">>, <<"Critica", "Critico", "Critica">> }

SeedMatrix ==
    [ui \in Urgencies \X Impacts |->
        (CHOOSE r \in SeedMatrixRows : r[1] = ui[1] /\ r[2] = ui[2])[3]]

\* the rows init_db inserts with INSERT OR IGNORE into the master tables
SeedMasters ==
    { <<"warehouses", "Bodega Central">>, <<"categories", "General">>,
      <<"suppliers", "Proveedor Demo">>,  <<"products", "SKU-001">>,
      <<"assets", "AS-0001">>,            <<"approval_areas", "Seguridad">>,
      <<"approval_areas", "Operaciones">>, <<"teams", "Soporte N1">> }

SMTP_DEFAULTS ==
    [k \in {"smtp_server", "smtp_port", "smtp_use_tls", "smtp_username",
            "smtp_password", "smtp_from", "notif_on_create", "notif_on_resolve",
            "notif_on_status_change", "notif_on_comment", "notif_on_approval",
            "notif_default_to", "cab_emails", "mgr_emails", "webhook_url",
            "webhook_token"} |->
        CASE k = "smtp_server" -> "smtp.office365.com"
          [] k = "smtp_port" -> "587"
          [] k \in {"smtp_use_tls", "notif_on_create", "notif_on_resolve",
                    "notif_on_status_change", "notif_on_comment",
                    "notif_on_approval"} -> "1"
          [] OTHER -> ""]

\* INSERT OR IGNORE of the rows of g into the keyed table f: rows of f stay
InsertOrIgnore(f, g) ==
    IF DOMAIN g \subseteq DOMAIN f THEN f
    ELSE [k \in DOMAIN f \cup DOMAIN g |-> IF k \in DOMAIN f THEN f[k] ELSE g[k]]

\* a loop that would write every default, over the value stored
SettingsDefaultsOverwrite(st) == InsertOrIgnore(SMTP_DEFAULTS, st)

\* the loop over SMTP_DEFAULTS: a key is inserted only when it has no row
SettingsDefaults(st) == InsertOrIgnore(st, SMTP_DEFAULTS)

\* the tables of INIT_SQL the model follows, and the columns of interest:
\* the columns CREATE TABLE gives a new table, and those migrate_schema adds
Tables == {"users", "tickets", "products", "assets", "settings", "sla_policies"}

\* CHECK(category IN (...)) of CREATE TABLE tickets, kept with the columns: a
\* table has it when this INIT_SQL created the table
CategoryCheck == <<"tickets", "CHECK category">>

CreatedColumns ==
    { <<"users", "active">>, <<"tickets", "closed_at">>, <<"tickets", "catalog_id">>,
      <<"tickets", "sla_hours">>, <<"products", "brand">>, <<"settings", "key">>,
      CategoryCheck }

AddedColumns ==
    { <<"tickets", "catalog_id">>, <<"tickets", "sla_hours">>, <<"products", "brand">> }

FullSchema == [tables |-> Tables, columns |-> CreatedColumns]

\* a script that would create no table
ExecInitSqlNothing(sc) == sc

\* executescript(INIT_SQL): CREATE TABLE IF NOT EXISTS gives a missing table all
\* its columns and leaves an existing table as it is
ExecInitSql(sc) ==
    IF sc.tables = Tables THEN sc
    ELSE [tables |-> Tables,
          columns |-> sc.columns \cup {c \in CreatedColumns : c[1] \notin sc.tables}]

\* the ALTER TABLE loop of migrate_schema over table t: a column is added to an
\* existing table when _column_exists does not find it
AddColumns(sc, t) ==
    IF t \in sc.tables /\ ~({c \in AddedColumns : c[1] = t} \subseteq sc.columns)
    THEN [sc EXCEPT !.columns = @ \cup {c \in AddedColumns : c[1] = t}]
    ELSE sc

\* migrate_schema() on the schema, every statement of it going through
migrate_schema(sc) == AddColumns(AddColumns(ExecInitSql(sc), "tickets"), "products")

\* the seed block of init_db runs while the users table is empty
SeedDue(us) == Len(us) = 0

\* init_db() on the tables besides users (db.users is the table it finds)
init_db(db) ==
    [db EXCEPT
        !.schema = migrate_schema(ExecInitSql(@)),
        !.sla_policies = IF SeedDue(db.users) THEN @ \o SeedPolicies ELSE @,
        !.priority_matrix = IF SeedDue(db.users) THEN InsertOrIgnore(@, SeedMatrix) ELSE @,
        !.masters = IF SeedDue(db.users) THEN @ \cup SeedMasters ELSE @,
        !.settings = SettingsDefaults(SettingsDefaults(@))]

\* the tables init_db reads and writes, as they are now
Db ==
    [users |-> users, sla_policies |-> sla_policies, priority_matrix |-> priority_matrix,
     masters |-> masters, settings |-> settings, schema |-> schema]

\* init_db() of a run, on the tables besides users
InitDbTables ==
    LET db == init_db(Db)
    IN  /\ sla_policies' = db.sla_policies
        /\ priority_matrix' = db.priority_matrix
        /\ masters' = db.masters
        /\ settings' = db.settings
        /\ schema' = db.schema

\* init_db(); try_sso_login() of a run of session s with query parameters q
MainPrelude(q, a, h, salt0, salt1, pwd) ==
    TrySso(q, a, h, InitDbUsers(users, salt0), salt1, pwd)

\* the values try_sso_login draws for an account it provisions
SsoSalts == {<<"1">>}
SsoPwds  == {<<"q">>}

\* the random draws main() may need
PreludeDraws(q) ==
    Draw(Len(users) = 0, Salts) \X Draw(SsoAccepts(q, now), SsoSalts)
                                \X Draw(SsoAccepts(q, now), SsoPwds)

Prelude(s, d) == MainPrelude(qp[s], auth[s], how[s], d[1], d[2], d[3])

\* the bound on the users table: a run may not grow it past MaxUsers rows
Fits(us) == us = users \/ Len(us) <= MaxUsers

\* router(): the page a run renders for the session user a
Router(a, page) == IF a = NoUser THEN "login" ELSE page

\* sidebar_menu(): the pages each role is offered
Menu(role) ==
    CASE role = "admin"  -> {"nuevo", "bandeja", "kanban", "aprobaciones", "config",
                             "movimientos", "reportes"}
      [] role = "agente" -> {"nuevo", "bandeja", "kanban", "aprobaciones",
                             "movimientos"}
      [] OTHER           -> {"nuevo", "mis"}

\* the record of a run: op (the handler), s (the session), user (the session
\* user it ran for), t (the ticket or row id), arg (a text input), old and new
\* (the status read and the status asked for), ok (the handler went through)
\* form: the other inputs of the form submitted
RanForm(op, s, a, t, arg, old, new, ok, form) ==
    [op |-> op, s |-> s, user |-> a, t |-> t, arg |-> arg, old |-> old,
     new |-> new, ok |-> ok, form |-> form]

RanArg(op, s, a, t, arg, old, new, ok) == RanForm(op, s, a, t, arg, old, new, ok, <<>>)

Ran(op, s, a, t, old, new, ok) == RanArg(op, s, a, t, <<>>, old, new, ok)

-----------------------------------------------------------------------------
(* Login, logout, the rerun st.rerun() asks for                             *)

\* names typed into the login form
LoginNames == {users[i].username : i \in 1..Len(users)}
              \cup {S_admin \o <<" ">>, <<"n","o">>}

\* login_ui's check of the form: the id of the row the login is for, or 0
LoginRow(us, name, pwd) ==
    LET df == {i \in 1..Len(us) : us[i].username = Strip(name) /\ us[i].active = 1}
    IN  IF df = {} THEN 0
        ELSE IF hash_password(pwd, us[First(df)].password_salt)
                  = us[First(df)].password_hash
             THEN First(df) ELSE 0

\* "Ingresar" on the login form
LoginSubmit(s, name, pwd) ==
    /\ pc[s] = "idle"
    /\ \E d \in PreludeDraws(qp[s]) :
         LET m == Prelude(s, d)
             i == LoginRow(m.users, name, pwd)
         IN  /\ Router(m.auth, "page") = "login"
             /\ Fits(m.users)
             /\ users' = m.users
             /\ IF i # 0
                THEN /\ auth' = [auth EXCEPT ![s] = SessionUser(m.users, i)]
                     /\ how' = [how EXCEPT ![s] =
                                  [via |-> "password", name |-> name, pwd |-> pwd,
                                   row |-> m.users[i]]]
                     /\ pc' = [pc EXCEPT ![s] = "rerun"]
                ELSE /\ auth' = [auth EXCEPT ![s] = m.auth]
                     /\ how' = [how EXCEPT ![s] = m.how]
                     /\ pc' = pc
             /\ last' = RanArg("login", s, m.auth, 0, name, "", "", i # 0)
    /\ InitDbTables
    /\ UNCHANGED others
    /\ UNCHANGED <<tickets, approvals, resets, now, ssoSecret, qp, loc, spent>>

\* "Cerrar sesion" in the sidebar
Logout(s) ==
    /\ pc[s] = "idle"
    /\ \E d \in PreludeDraws(qp[s]) :
         LET m == Prelude(s, d)
         IN  /\ Router(m.auth, "page") = "page"
             /\ Fits(m.users)
             /\ users' = m.users
             /\ auth' = [auth EXCEPT ![s] = NoUser]
             /\ how' = [how EXCEPT ![s] = NoHow]
             /\ pc' = [pc EXCEPT ![s] = "rerun"]
             /\ last' = Ran("logout", s, m.auth, 0, "", "", TRUE)
    /\ InitDbTables
    /\ UNCHANGED others
    /\ UNCHANGED <<tickets, approvals, resets, now, ssoSecret, qp, loc, spent>>

\* a run of main() that handles no widget: the run st.rerun() starts, or a
\* widget that only changes what is shown
Rerun(s) ==
    /\ pc[s] \in {"idle", "rerun"}
    /\ \E d \in PreludeDraws(qp[s]) :
         LET m == Prelude(s, d)
         IN  /\ Fits(m.users)
             /\ users' = m.users
             /\ auth' = [auth EXCEPT ![s] = m.auth]
             /\ how' = [how EXCEPT ![s] = m.how]
             /\ pc' = [pc EXCEPT ![s] = "idle"]
             /\ last' = Ran(Router(m.auth, "page"), s, m.auth, 0, "", "", TRUE)
    /\ InitDbTables
    /\ UNCHANGED others
    /\ UNCHANGED <<tickets, approvals, resets, now, ssoSecret, qp, loc, spent>>

\* the query strings a browser may open the application with
QueryParams ==
    {NoParams}
    \cup {[user |-> u, ts |-> now, tsInt |-> TRUE,
           sig |-> HmacSha256(<<"k">>, SsoMessage(u, now))] :
             u \in {S_admin, <<"e","v","e">>}}
    \cup {[user |-> S_admin, ts |-> now, tsInt |-> TRUE,
           sig |-> HmacSha256(k, SsoMessage(S_admin, now))] : k \in Keys \ {<<"k">>}}
    \cup {[user |-> S_admin, ts |-> now + 2 * SSO_WINDOW, tsInt |-> TRUE,
           sig |-> HmacSha256(<<"k">>, SsoMessage(S_admin, now + 2 * SSO_WINDOW))],
          [user |-> S_admin, ts |-> now, tsInt |-> TRUE,
           sig |-> HmacSha256(<<"k">>, SsoMessage(<<"e","v","e">>, now))],
          [user |-> S_admin, ts |-> now, tsInt |-> FALSE,
           sig |-> HmacSha256(<<"k">>, SsoMessage(S_admin, now))]}

\* a browser opens the application at a URL: a new session, its first run
Visit(s, q) ==
    /\ pc[s] = "idle"
    /\ qp' = [qp EXCEPT ![s] = q]
    /\ \E d \in PreludeDraws(q) :
         LET m == MainPrelude(q, NoUser, NoHow, d[1], d[2], d[3])
         IN  /\ Fits(m.users)
             /\ users' = m.users
             /\ auth' = [auth EXCEPT ![s] = m.auth]
             /\ how' = [how EXCEPT ![s] = m.how]
             /\ last' = Ran(Router(m.auth, "page"), s, m.auth, 0, "", "", TRUE)
    /\ InitDbTables
    /\ UNCHANGED others
    /\ UNCHANGED <<tickets, approvals, resets, now, ssoSecret, pc, loc, spent>>

\* the clock, by one SSO window
TickAuth ==
    /\ now < MaxSsoTicks * SSO_WINDOW
    /\ now' = now + SSO_WINDOW
    /\ last' = Ran("tick", "", NoUser, 0, "", "", TRUE)
    /\ UNCHANGED seeded
    /\ UNCHANGED others
    /\ UNCHANGED <<users, tickets, approvals, resets, ssoSecret, auth, qp, pc, loc,
                   how, spent>>

-----------------------------------------------------------------------------
(* Self-registration                                                        *)

SLUG_MAX == 20
SIGNUP_MAX_N == 9999

\* s.replace(c, "")
RECURSIVE Remove(_, _)
Remove(s, c) ==
    IF s = <<>> THEN <<>>
    ELSE IF Head(s) = c THEN Remove(Tail(s), c) ELSE <<Head(s)>> \o Remove(Tail(s), c)

\* _slug(s)
Slug(s) ==
    LET x == Prefix(Filter(Remove(ToLower(Strip(s)), " "), SlugChars), SLUG_MAX)
    IN  IF x = <<>> THEN S_user ELSE x

\* _username_available(u)
UsernameAvailable(us, u) == ByUsername(us, u) = {}

\* the loop of signup_ui: the first n from 1 whose name is free, SIGNUP_MAX_N at most
RECURSIVE SignupProbe(_, _, _)
SignupProbe(us, name, n) ==
    IF ~UsernameAvailable(us, name \o Dec(n)) /\ n < SIGNUP_MAX_N
    THEN SignupProbe(us, name, n + 1) ELSE n

\* the username signup_ui gives the account
SignupUsername(us, email, full_name) ==
    LET local == BeforeFirst(email, "@")
        base  == IF local # <<>> THEN local ELSE Slug(full_name)
        name  == Slug(base)
    IN  IF UsernameAvailable(us, name) THEN name
        ELSE name \o Dec(SignupProbe(us, name, 1))

\* a registration that would hand out the agent role
SignupRoleAgent == "agente"

\* the role signup_ui gives a new account
SignupRole == "visor"

SignupEmails == { <<"a","@","x">>, <<" ","A","+","@","x">>,
                  <<"@","x">>, <<"a","x">>, S_admin \o AtX }
SignupNames  == { <<>>, <<"V","i","c">> }

\* "Crear mi cuenta" on the signup form
Signup(s, email, full_name, pwd, salt) ==
    /\ pc[s] = "idle"
    /\ \E d \in PreludeDraws(qp[s]) :
         LET m    == Prelude(s, d)
             name == SignupUsername(m.users, email, full_name)
             good == email # <<>> /\ Contains(email, "@")
                     /\ UsernameAvailable(m.users, name)
             row  == UserRow(name, Strip(email), pwd, salt, SignupRole, 1)
         IN  /\ Router(m.auth, "page") = "login"
             /\ users' = IF good THEN Append(m.users, row) ELSE m.users
             /\ Fits(users')
             /\ auth' = [auth EXCEPT ![s] = m.auth]
             /\ how' = [how EXCEPT ![s] = m.how]
             /\ last' = RanArg("signup", s, m.auth, 0, name, "", "", good)
    /\ InitDbTables
    /\ UNCHANGED others
    /\ UNCHANGED <<tickets, approvals, resets, now, ssoSecret, qp, pc, loc, spent>>

-----------------------------------------------------------------------------
(* Password recovery                                                        *)

RESET_HOURS == 1
HourSeconds == 60 * 60

Tokens == {<<"t">>, <<"u">>}         \* values of secrets.token_urlsafe(32)

ResetRow(uid, token, t) ==
    [user_id |-> uid, token |-> token, created_at |-> t,
     expires_at |-> t + RESET_HOURS * HourSeconds, used |-> 0]

\* start_password_reset's query: the active users with that name or e-mail
ResetUsers(us, ident) ==
    {i \in 1..Len(us) : /\ us[i].username = Strip(ident) \/ us[i].email = Strip(ident)
                        /\ us[i].active = 1}

\* start_password_reset(identifier), drawing `token`: the table it leaves
\* (token is UNIQUE: the INSERT of a token in use raises)
start_password_reset(rs, us, ident, token) ==
    IF ResetUsers(us, ident) = {} \/ \E j \in 1..Len(rs) : rs[j].token = token
    THEN rs
    ELSE Append(rs, ResetRow(First(ResetUsers(us, ident)), token, now))

\* complete_password_reset's query: the unused rows of that token
ResetPending(rs, token) == {j \in 1..Len(rs) : rs[j].token = token /\ rs[j].used = 0}

\* the checks without the comparison with expires_at
ResetUsableNoExpiry(rs, token) ==
    IF ResetPending(rs, token) = {} THEN 0 ELSE First(ResetPending(rs, token))

\* complete_password_reset's checks: the row it will complete, or 0 (return False)
ResetUsable(rs, token) ==
    IF ResetPending(rs, token) = {} THEN 0
    ELSE IF now > rs[First(ResetPending(rs, token))].expires_at THEN 0
         ELSE First(ResetPending(rs, token))

\* a last statement that would leave the row unused
MarkUsedNot(rs, j) == rs

\* complete_password_reset's last statement: the row marked used
MarkUsed(rs, j) == [rs EXCEPT ![j].used = 1]

\* "Enviar codigo" on the forgot form
Forgot(s, ident, token) ==
    /\ pc[s] = "idle"
    /\ Len(resets) < MaxResets
    /\ \E d \in PreludeDraws(qp[s]) :
         LET m == Prelude(s, d)
         IN  /\ Router(m.auth, "page") = "login"
             /\ Fits(m.users)
             /\ users' = m.users
             /\ resets' = start_password_reset(resets, m.users, ident, token)
             /\ auth' = [auth EXCEPT ![s] = m.auth]
             /\ how' = [how EXCEPT ![s] = m.how]
             /\ last' = RanArg("forgot", s, m.auth, 0, token, "", "", resets' # resets)
    /\ InitDbTables
    /\ UNCHANGED others
    /\ UNCHANGED <<tickets, approvals, now, ssoSecret, qp, pc, loc, spent>>

\* "Cambiar contrasena" on the reset form, both password fields equal:
\* complete_password_reset up to its checks
CompleteReset(s, typed, pwd) ==
    /\ pc[s] = "idle"
    /\ \E d \in PreludeDraws(qp[s]) :
         LET m     == Prelude(s, d)
             token == Strip(typed)
             j     == ResetUsable(resets, token)
         IN  /\ Router(m.auth, "page") = "login"
             /\ Fits(m.users)
             /\ typed # <<>>
             /\ users' = m.users
             /\ auth' = [auth EXCEPT ![s] = m.auth]
             /\ how' = [how EXCEPT ![s] = m.how]
             /\ IF j # 0
                THEN /\ loc' = [loc EXCEPT ![s] = [NoLoc EXCEPT !.row = j,
                                                     !.token = token, !.pwd = pwd]]
                     /\ pc' = [pc EXCEPT ![s] = "cr_checked"]
                ELSE UNCHANGED <<loc, pc>>
             /\ last' = RanArg("reset", s, m.auth, j, token, "", "", j # 0)
    /\ InitDbTables
    /\ UNCHANGED others
    /\ UNCHANGED <<tickets, approvals, resets, now, ssoSecret, qp, spent>>

\* UPDATE users SET password_hash=?, password_salt=? WHERE id=?
ResetSetPassword(s, salt) ==
    /\ pc[s] = "cr_checked"
    /\ users' = [users EXCEPT
            ![resets[loc[s].row].user_id].password_hash = hash_password(loc[s].pwd, salt),
            ![resets[loc[s].row].user_id].password_salt = salt]
    /\ pc' = [pc EXCEPT ![s] = "cr_updated"]
    /\ last' = RanArg("reset_set", s, auth[s], loc[s].row, loc[s].token, "", "", TRUE)
    /\ UNCHANGED seeded
    /\ UNCHANGED others
    /\ UNCHANGED <<tickets, approvals, resets, now, ssoSecret, auth, qp, loc, how, spent>>

\* UPDATE password_resets SET used=1 WHERE id=?; return True; st.rerun()
ResetMarkUsed(s) ==
    /\ pc[s] = "cr_updated"
    /\ resets' = MarkUsed(resets, loc[s].row)
    /\ spent' = spent \cup {loc[s].token}
    /\ loc' = [loc EXCEPT ![s] = NoLoc]
    /\ pc' = [pc EXCEPT ![s] = "rerun"]
    /\ last' = RanArg("reset_true", s, auth[s], loc[s].row, loc[s].token, "", "", TRUE)
    /\ UNCHANGED seeded
    /\ UNCHANGED others
    /\ UNCHANGED <<users, tickets, approvals, now, ssoSecret, auth, qp, how>>

\* the clock, by half an hour
TickReset ==
    /\ now < MaxTicks * (HourSeconds \div 2)
    /\ now' = now + (HourSeconds \div 2)
    /\ last' = Ran("tick", "", NoUser, 0, "", "", TRUE)
    /\ UNCHANGED seeded
    /\ UNCHANGED others
    /\ UNCHANGED <<users, tickets, approvals, resets, ssoSecret, auth, qp, pc, loc,
                   how, spent>>

-----------------------------------------------------------------------------
(* Tickets: creation, the tray, the agent's Kanban                          *)

\* CHECK(category IN (...)) of table tickets; the INSERT stores itil_type there
TicketCategoryOk(cat) == cat \in {"Incidente", "Solicitud", "Ajuste", "Consulta"}

\* the INSERT INTO tickets passes the table's constraints on category
TicketInsertOk(sc, cat) == CategoryCheck \in sc.columns => TicketCategoryOk(cat)

\* v.split(","), v a text of tokens
RECURSIVE SplitComma(_)
SplitComma(v) ==
    IF IndexFrom(v, ",", 1) = 0 THEN <<v>>
    ELSE <<SubSeq(v, 1, IndexFrom(v, ",", 1) - 1)>>
         \o SplitComma(SubSeq(v, IndexFrom(v, ",", 1) + 1, Len(v)))

\* [e.strip() for e in v.split(",") if e.strip()]
EmailList(v) ==
    LET NonEmpty(e) == e # <<>>
    IN  SelectSeq([i \in 1..Len(SplitComma(v)) |-> Strip(SplitComma(v)[i])], NonEmpty)

\* the seed rows of approval_areas: name, emails
SeedAreaEmails(name) ==
    IF name = "Seguridad" THEN <<"seguridad@example.com">> ELSE <<"ops@example.com">>

\* the rows of approval_areas: a row as init_db seeded it (active, the seed
\* e-mail) or as "Guardar area" wrote it
AreaRows(ms) ==
    { IF Len(r) = 2
      THEN [name |-> r[2], emails |-> SeedAreaEmails(r[2]), active |-> 1]
      ELSE [name |-> r[2], emails |-> r[3], active |-> r[4]] :
      r \in {m \in ms : m[1] = "approval_areas"} }

\* the orders in which a SELECT without ORDER BY may return the rows of S
RowOrders(S) ==
    {q \in [1..Cardinality(S) -> S] : \A i, j \in 1..Cardinality(S) : q[i] = q[j] => i = j}

\* one change_approvals row per address
LevelRows(t, level, emails) ==
    [i \in 1..Len(emails) |-> ApprovalRow(t, level, emails[i])]

RECURSIVE AreaLevelRows(_, _)
AreaLevelRows(t, areas) ==
    IF areas = <<>> THEN <<>>
    ELSE LevelRows(t, Head(areas).name, EmailList(Head(areas).emails))
         \o AreaLevelRows(t, Tail(areas))

\* the change_approvals rows "Crear Ticket" inserts for the Change t created
\* without a service: Manager, CAB, then the active areas in the order read
ChangeApprovals(t, st, ms) ==
    { LevelRows(t, "Manager", EmailList(st["mgr_emails"]))
      \o LevelRows(t, "CAB", EmailList(st["cab_emails"]))
      \o AreaLevelRows(t, q) :
      q \in RowOrders({a \in AreaRows(ms) : a.active = 1}) }

\* the rows a run of "Crear Ticket" appends to change_approvals
NewApprovals(ok, itil_type, t, st, ms) ==
    IF ok /\ itil_type = "Cambio" THEN ChangeApprovals(t, st, ms) ELSE {<<>>}

\* the rows sla_lookup's query would select if it did not ask for active = 1
SlaRowsAnyActive(pols, process, priority) ==
    {i \in 1..Len(pols) : pols[i].process = process /\ pols[i].priority = priority}

\* the rows of sla_lookup's query
SlaRows(pols, process, priority) ==
    {i \in 1..Len(pols) : /\ pols[i].process = process /\ pols[i].priority = priority
                          /\ pols[i].active = 1}

\* sla_lookup(process, priority): <<response, resolution>>; LIMIT 1 without
\* ORDER BY returns any one of the rows, so the results it may give
sla_lookup(pols, process, priority) ==
    IF SlaRows(pols, process, priority) = {} THEN {<<4, 48>>}
    ELSE {<<pols[i].response_hours, pols[i].resolution_hours>> :
             i \in SlaRows(pols, process, priority)}

\* matrix_priority_global(urgency, impact)
matrix_priority_global(pm, urgency, impact) ==
    IF <<urgency, impact>> \in DOMAIN pm THEN pm[<<urgency, impact>>] ELSE "Media"

\* matrix_priority_service(catalog_id, urgency, impact); catalog_id 0 is None
matrix_priority_service(spm, pm, catalog_id, urgency, impact) ==
    IF catalog_id = 0 THEN matrix_priority_global(pm, urgency, impact)
    ELSE IF <<catalog_id, urgency, impact>> \in DOMAIN spm
         THEN spm[<<catalog_id, urgency, impact>>]
         ELSE matrix_priority_global(pm, urgency, impact)

\* prio_value and itil_type as the form computes them (lines 718-724)
FormPriority(cat_item, urgency, impact, prio) ==
    LET auto_pri == matrix_priority_service(service_priority_matrix, priority_matrix,
                                            cat_item, urgency, impact)
        prio_value == IF prio = "Auto" THEN auto_pri ELSE prio
    IN  IF cat_item # 0 /\ prio = "Auto"
        THEN service_catalog[cat_item].default_priority
        ELSE prio_value

FormProcess(cat_item, itil) ==
    IF cat_item # 0 THEN service_catalog[cat_item].process ELSE itil

\* due_res = now + timedelta(hours=int(resolution_sla))
DueAt(t, hours) == t + hours * 3600

\* "Crear Ticket" with a title: cat_item is the service chosen (0: none), prio
\* the choice of "Prioridad"; the INSERT raises when the CHECK of category
\* fails (and the approval rows of a Change are inserted after it)
NewTicket(s, cat_item, itil, urgency, impact, prio) ==
    /\ pc[s] = "idle"
    /\ Len(tickets) < MaxTickets
    /\ cat_item \in 0..Len(service_catalog)
    /\ \E d \in PreludeDraws(qp[s]) :
         LET m == Prelude(s, d)
             itil_type  == FormProcess(cat_item, itil)
             prio_value == FormPriority(cat_item, urgency, impact, prio)
         IN  /\ Router(m.auth, "nuevo") = "nuevo"
             /\ "nuevo" \in Menu(m.auth.role)
             /\ Fits(m.users)
             /\ users' = m.users
             /\ auth' = [auth EXCEPT ![s] = m.auth]
             /\ how' = [how EXCEPT ![s] = m.how]
             /\ \E rows \in NewApprovals(TicketInsertOk(init_db(Db).schema, itil_type),
                                           itil_type, Len(tickets) + 1,
                                           init_db(Db).settings, init_db(Db).masters) :
                  approvals' = approvals \o rows
             /\ \E sla \in sla_lookup(init_db(Db).sla_policies, itil_type, prio_value) :
                  tickets' = IF TicketInsertOk(init_db(Db).schema, itil_type)
                             THEN Append(tickets,
                                    [TicketRow(itil_type, m.auth.id) EXCEPT
                                        !.code = TicketCode(now,
                                                    TicketsOfDay(tickets, now) + 1),
                                        !.priority = prio_value,
                                        !.urgency = urgency, !.impact = impact,
                                        !.catalog_id = cat_item,
                                        !.response_sla_hours = sla[1],
                                        !.sla_hours = sla[2],
                                        !.created_at = now,
                                        !.due_at = DueAt(now, sla[2])])
                             ELSE tickets
             /\ last' = RanForm("nuevo", s, m.auth, Len(tickets) + 1, <<>>, "", "Abierto",
                                TicketInsertOk(init_db(Db).schema, itil_type),
                                <<cat_item, itil, urgency, impact, prio>>)
    /\ InitDbTables
    /\ UNCHANGED others
    /\ UNCHANGED <<resets, now, ssoSecret, qp, pc, loc, spent>>

\* "Crear Ticket" with the form's default choices and no service
CreateTicket(s, itil) == NewTicket(s, 0, itil, "Media", "Medio", "Auto")

\* "Crear Ticket" with a title and the form's default choices, up to the code:
\* the run has looked up the SLA hours and counts the day's tickets
NuevoSubmit(s, itil) ==
    /\ pc[s] = "idle"
    /\ Len(tickets) < MaxTickets
    /\ \E d \in PreludeDraws(qp[s]) :
         LET m == Prelude(s, d)
         IN  /\ Router(m.auth, "nuevo") = "nuevo"
             /\ "nuevo" \in Menu(m.auth.role)
             /\ Fits(m.users)
             /\ users' = m.users
             /\ auth' = [auth EXCEPT ![s] = m.auth]
             /\ how' = [how EXCEPT ![s] = m.how]
             /\ \E sla \in sla_lookup(init_db(Db).sla_policies, itil,
                                      FormPriority(0, "Media", "Medio", "Auto")) :
                  loc' = [loc EXCEPT ![s] =
                            [NoLoc EXCEPT
                               !.code = TicketCode(now, TicketsOfDay(tickets, now) + 1),
                               !.form = <<itil, sla[1], sla[2], now>>]]
             /\ pc' = [pc EXCEPT ![s] = "nuevo_code"]
             /\ last' = RanForm("nuevo_code", s, m.auth, 0, <<>>, "", "", TRUE, <<itil>>)
    /\ InitDbTables
    /\ UNCHANGED others
    /\ UNCHANGED <<tickets, approvals, resets, now, ssoSecret, qp, spent>>

\* INSERT INTO tickets(code, ...): raises when the CHECK of category fails or
\* a row has the code (code is UNIQUE), and the run ends there
NuevoInsert(s) ==
    /\ pc[s] = "nuevo_code"
    /\ LET f  == loc[s].form
           ok == TicketInsertOk(schema, f[1]) /\ CodeFree(tickets, loc[s].code)
       IN  /\ tickets' = IF ok
                         THEN Append(tickets,
                                [TicketRow(f[1], auth[s].id) EXCEPT
                                    !.code = loc[s].code,
                                    !.priority = FormPriority(0, "Media", "Medio", "Auto"),
                                    !.response_sla_hours = f[2],
                                    !.sla_hours = f[3],
                                    !.created_at = f[4],
                                    !.due_at = DueAt(f[4], f[3])])
                         ELSE tickets
           /\ last' = RanForm("nuevo_insert", s, auth[s], Len(tickets) + 1, loc[s].code,
                              "", "Abierto", ok, <<f[1]>>)
    /\ loc' = [loc EXCEPT ![s] = NoLoc]
    /\ pc' = [pc EXCEPT ![s] = "idle"]
    /\ UNCHANGED seeded
    /\ UNCHANGED others
    /\ UNCHANGED <<users, approvals, resets, now, ssoSecret, auth, qp, how, spent>>

\* a table in which a closed ticket may be reopened
StateTransitionReopen(old, new) ==
    new \in (CASE old = "Abierto"     -> {"En Progreso", "Cerrado"}
               [] old = "En Progreso" -> {"Resuelto", "Cerrado"}
               [] old = "Resuelto"    -> {"Cerrado", "En Progreso"}
               [] OTHER               -> {"En Progreso"})

\* state_transition_ok(old, new)
state_transition_ok(old, new) ==
    new \in (CASE old = "Abierto"     -> {"En Progreso", "Cerrado"}
               [] old = "En Progreso" -> {"Resuelto", "Cerrado"}
               [] old = "Resuelto"    -> {"Cerrado", "En Progreso"}
               [] OTHER               -> {})

\* the first check as it would be without the exemption of admins
TransitionGateStrict(role, old, new) == state_transition_ok(old, new)

\* the first check of "Guardar cambios": the transition table, not for admins
TransitionGate(role, old, new) == ~(~state_transition_ok(old, new) /\ role # "admin")

\* the approval rows of ticket t
ApprovalsOf(aps, t) == {j \in 1..Len(aps) : aps[j].ticket_id = t}

\* the second check of "Guardar cambios": a Change is resolved or closed by a
\* non-admin only with approval rows, all of them Aprobado
ApprovalGate(role, itil, new, aps, t) ==
    ~(/\ itil = "Cambio" /\ new \in {"Resuelto", "Cerrado"} /\ role # "admin"
      /\ \/ ApprovalsOf(aps, t) = {}
         \/ \E j \in ApprovalsOf(aps, t) : aps[j].status # "Aprobado")

\* the tickets the tray lists for the session user a (filters set to show all)
TrayRows(a) ==
    {t \in 1..Len(tickets) :
        \/ a.role \in {"admin", "agente"}
        \/ tickets[t].created_by = a.id \/ tickets[t].assigned_to = a.id}

can_edit_status(a, t) ==
    a.role = "admin" \/ (a.role = "agente" /\ tickets[t].assigned_to = a.id)

can_self_assign(a, t) ==
    a.role = "agente" /\ (tickets[t].assigned_to = 0 \/ tickets[t].assigned_to = a.id)

\* users_df: the active users
ActiveUsers(us) == {i \in 1..Len(us) : us[i].active = 1}

\* what the "Asignar a" widget offers (<<>> is None)
AssigneeChoices(a, t, us) ==
    IF a.role = "admin" THEN {<<>>} \cup {us[i].username : i \in ActiveUsers(us)}
    ELSE IF can_self_assign(a, t) THEN {<<>>, a.username}
    ELSE {IF tickets[t].assigned_to = 0 THEN <<>>
          ELSE us[tickets[t].assigned_to].username}

\* assignee_id, from the name chosen
AssigneeId(a, us, name) ==
    IF name = <<>> THEN 0
    ELSE IF name = a.username THEN a.id
    ELSE IF \E i \in ActiveUsers(us) : us[i].username = name
         THEN First({i \in ActiveUsers(us) : us[i].username = name})
         ELSE 0

can_add_comment(a, t) ==
    a.role = "admin" \/ a.role = "agente" \/ tickets[t].created_by = a.id

CommentRow(t, author, comment) ==
    [ticket_id |-> t, author_id |-> author, comment |-> comment]

\* texts typed into "Agregar comentario" (<<>>: left empty)
Comments == {<<>>, <<"o", "k">>}

can_adjust_sla(a, t) ==
    a.role = "admin" \/ (a.role = "agente" /\ tickets[t].assigned_to = a.id)

\* due_at as "Guardar cambios" writes it: more_hours later when the user may
\* adjust the SLA and typed a positive number
DueAtSaved(row, more_hours, may) ==
    IF more_hours > 0 /\ may THEN row.due_at + more_hours * 3600 ELSE row.due_at

\* resolved_at as "Guardar cambios" writes it (<<>> is NULL)
ResolvedAtSaved(row, new_status, may, t_now) ==
    IF new_status \in {"Resuelto", "Cerrado"} /\ may THEN <<t_now>> ELSE row.resolved_at

\* "Guardar cambios" in the tray: the button is there for who may edit the
\* status, assign or adjust the SLA; the two checks, the UPDATE, then the
\* INSERT of the comment
TraySave(s, t, new_status, name, comment, more_hours) ==
    /\ pc[s] = "idle"
    /\ comment # <<>> => Len(comments) < MaxComments
    /\ \E d \in PreludeDraws(qp[s]) :
         LET m == Prelude(s, d)
             a == m.auth
         IN  /\ Router(a, "bandeja") = "bandeja"
             /\ Fits(m.users)
             /\ t \in TrayRows(a)
             /\ TRUE \in {can_edit_status(a, t), a.role = "admin",
                          can_self_assign(a, t), can_adjust_sla(a, t)}
             /\ new_status \in (IF can_edit_status(a, t) THEN Statuses
                                ELSE {tickets[t].status})
             /\ name \in AssigneeChoices(a, t, m.users)
             /\ comment \in (IF can_add_comment(a, t) THEN Comments ELSE {<<>>})
             /\ more_hours >= 0
             /\ more_hours > 0 => can_adjust_sla(a, t)
             /\ DueAtSaved(tickets[t], more_hours, TRUE)
                    <= (MaxTicks + 2) * 24 * HourSeconds
             /\ users' = m.users
             /\ auth' = [auth EXCEPT ![s] = a]
             /\ how' = [how EXCEPT ![s] = m.how]
             /\ LET ok == /\ TransitionGate(a.role, tickets[t].status, new_status)
                          /\ ApprovalGate(a.role, tickets[t].itil_type, new_status,
                                          approvals, t)
                IN  /\ tickets' = IF ok
                                  THEN [tickets EXCEPT
                                          ![t].status = new_status,
                                          ![t].assigned_to = AssigneeId(a, m.users, name),
                                          ![t].due_at =
                                             DueAtSaved(tickets[t], more_hours,
                                                        can_adjust_sla(a, t)),
                                          ![t].resolved_at =
                                             ResolvedAtSaved(tickets[t], new_status,
                                                             can_edit_status(a, t), now)]
                                  ELSE tickets
                    /\ comments' = IF ok /\ comment # <<>> /\ can_add_comment(a, t)
                                   THEN Append(comments, CommentRow(t, a.id, comment))
                                   ELSE comments
                    /\ pc' = IF ok THEN [pc EXCEPT ![s] = "rerun"] ELSE pc
                    /\ last' = RanForm("tray", s, a, t, name, tickets[t].status,
                                       new_status, ok, <<comment>>)
    /\ InitDbTables
    /\ UNCHANGED <<service_catalog, service_priority_matrix, stock, risk_rules,
                   risk, call>>
    /\ UNCHANGED <<approvals, resets, now, ssoSecret, qp, loc, spent>>

\* ok_res of one row of the report
in_sla_resolution(row) ==
    IF row.resolved_at = <<>> THEN FALSE
    ELSE row.resolved_at[1] - row.created_at <= row.sla_hours * 3600

\* "Reportes / Encuestas / Exportar": the column ok_res of the ticket table
Report(s) ==
    /\ pc[s] = "idle"
    /\ \E d \in PreludeDraws(qp[s]) :
         LET m == Prelude(s, d)
             a == m.auth
         IN  /\ Router(a, "reportes") = "reportes"
             /\ "reportes" \in Menu(a.role)
             /\ a.role = "admin"
             /\ Fits(m.users)
             /\ users' = m.users
             /\ auth' = [auth EXCEPT ![s] = a]
             /\ how' = [how EXCEPT ![s] = m.how]
             /\ last' = RanForm("report", s, a, 0, <<>>, "", "", TRUE,
                                [t \in 1..Len(tickets) |->
                                    in_sla_resolution(tickets[t])])
    /\ InitDbTables
    /\ UNCHANGED others
    /\ UNCHANGED <<tickets, approvals, resets, now, ssoSecret, qp, pc, loc, spent>>

\* a day passes
TickDay ==
    /\ now < MaxTicks * 24 * HourSeconds
    /\ now' = now + 24 * HourSeconds
    /\ last' = Ran("tick", "", NoUser, 0, "", "", TRUE)
    /\ UNCHANGED seeded
    /\ UNCHANGED others
    /\ UNCHANGED <<users, tickets, approvals, resets, ssoSecret, auth, qp, pc, loc,
                   how, spent>>

\* the tickets page_kanban_agente lists in column estado
KanbanRows(a, estado) ==
    {t \in 1..Len(tickets) : tickets[t].assigned_to = a.id /\ tickets[t].status = estado}

KanbanBackTarget(estado) == IF estado = "En Progreso" THEN "Abierto" ELSE "En Progreso"

KanbanForwardTarget(estado) == IF estado = "Abierto" THEN "En Progreso" ELSE "Resuelto"

\* a Kanban button: the status of the card is overwritten
KanbanMove(s, t, estado, target, op) ==
    /\ pc[s] = "idle"
    /\ \E d \in PreludeDraws(qp[s]) :
         LET m == Prelude(s, d)
             a == m.auth
         IN  /\ Router(a, "kanban") = "kanban"
             /\ "kanban" \in Menu(a.role)
             /\ a.role = "agente"
             /\ Fits(m.users)
             /\ t \in KanbanRows(a, estado)
             /\ users' = m.users
             /\ auth' = [auth EXCEPT ![s] = a]
             /\ how' = [how EXCEPT ![s] = m.how]
             /\ tickets' = [tickets EXCEPT ![t].status = target]
             /\ pc' = [pc EXCEPT ![s] = "rerun"]
             /\ last' = Ran(op, s, a, t, estado, target, TRUE)
    /\ InitDbTables
    /\ UNCHANGED others
    /\ UNCHANGED <<approvals, resets, now, ssoSecret, qp, loc, spent>>

\* "Atras" on a card of column En Progreso or Resuelto
KanbanBack(s, t, estado) ==
    /\ estado \in {"En Progreso", "Resuelto"}
    /\ KanbanMove(s, t, estado, KanbanBackTarget(estado), "kanban")

\* "Avanzar" on a card of column Abierto or En Progreso
KanbanForward(s, t, estado) ==
    /\ estado \in {"Abierto", "En Progreso"}
    /\ KanbanMove(s, t, estado, KanbanForwardTarget(estado), "kanban")

-----------------------------------------------------------------------------
(* The approval centre: one decision is four statements                     *)

\* the list as it would be without the filter on role and e-mail
PendingForAnyone(a, aps) ==
    {j \in 1..Len(aps) : /\ aps[j].status = "Pendiente"
                         /\ aps[j].ticket_id \in 1..Len(tickets)}

\* the rows page_aprobaciones lists for the session user a
PendingFor(a, aps) ==
    {j \in 1..Len(aps) : /\ aps[j].status = "Pendiente"
                         /\ aps[j].ticket_id \in 1..Len(tickets)
                         /\ a.role = "admin" \/ aps[j].approver_email = a.email}

\* overall, from the statuses of the ticket's approval rows
Overall(aps, t) ==
    IF \E j \in ApprovalsOf(aps, t) : aps[j].status = "Rechazado" THEN "Rechazado"
    ELSE IF \A j \in ApprovalsOf(aps, t) : aps[j].status = "Aprobado" THEN "Aprobado"
    ELSE "Pendiente"

\* "Enviar decision" pressed: the run lists the pending rows and takes the one chosen
DecideOpen(s, j, decision) ==
    /\ pc[s] = "idle"
    /\ \E d \in PreludeDraws(qp[s]) :
         LET m == Prelude(s, d)
             a == m.auth
         IN  /\ Router(a, "aprobaciones") = "aprobaciones"
             /\ "aprobaciones" \in Menu(a.role)
             /\ Fits(m.users)
             /\ j \in PendingFor(a, approvals)
             /\ users' = m.users
             /\ auth' = [auth EXCEPT ![s] = a]
             /\ how' = [how EXCEPT ![s] = m.how]
             /\ loc' = [loc EXCEPT ![s] = [NoLoc EXCEPT !.row = j,
                                             !.decision = decision,
                                             !.ticket = approvals[j].ticket_id]]
             /\ pc' = [pc EXCEPT ![s] = "ap_chosen"]
             /\ last' = Ran("ap_open", s, a, j, approvals[j].status, decision, TRUE)
    /\ InitDbTables
    /\ UNCHANGED others
    /\ UNCHANGED <<tickets, approvals, resets, now, ssoSecret, qp, spent>>

\* UPDATE change_approvals SET status=?, ... WHERE id=?
DecideWrite(s) ==
    /\ pc[s] = "ap_chosen"
    /\ approvals' = [approvals EXCEPT ![loc[s].row] =
                        [@ EXCEPT !.status = loc[s].decision,
                                  !.decided_at = <<now>>,
                                  !.approver = auth[s].username,
                                  !.comment = <<>>]]
    /\ pc' = [pc EXCEPT ![s] = "ap_written"]
    /\ last' = Ran("ap_write", s, auth[s], loc[s].row, approvals[loc[s].row].status,
                   loc[s].decision, TRUE)
    /\ UNCHANGED seeded
    /\ UNCHANGED others
    /\ UNCHANGED <<users, tickets, resets, now, ssoSecret, auth, qp, loc, how, spent>>

\* SELECT status FROM change_approvals WHERE ticket_id=?
DecideRead(s) ==
    /\ pc[s] = "ap_written"
    /\ loc' = [loc EXCEPT ![s].overall = Overall(approvals, loc[s].ticket)]
    /\ pc' = [pc EXCEPT ![s] = "ap_read"]
    /\ last' = Ran("ap_read", s, auth[s], loc[s].ticket, "", "", TRUE)
    /\ UNCHANGED seeded
    /\ UNCHANGED others
    /\ UNCHANGED <<users, tickets, approvals, resets, now, ssoSecret, auth, qp, how,
                   spent>>

\* UPDATE tickets SET approval_status=? WHERE id=?, then st.rerun()
DecideStore(s) ==
    /\ pc[s] = "ap_read"
    /\ tickets' = [tickets EXCEPT ![loc[s].ticket].approval_status = loc[s].overall]
    /\ loc' = [loc EXCEPT ![s] = NoLoc]
    /\ pc' = [pc EXCEPT ![s] = "rerun"]
    /\ last' = Ran("ap_store", s, auth[s], loc[s].ticket, "", "", TRUE)
    /\ UNCHANGED seeded
    /\ UNCHANGED others
    /\ UNCHANGED <<users, approvals, resets, now, ssoSecret, auth, qp, how, spent>>

-----------------------------------------------------------------------------
(* The risk of a Change                                                     *)

\* {"Baja":0,"Media":1,"Alta":2,"Critica":3}.get(x, 1)
RankPriority(x) ==
    CASE x = "Baja" -> 0 [] x = "Media" -> 1 [] x = "Alta" -> 2 [] x = "Critica" -> 3
      [] OTHER -> 1

\* {"Bajo":0,"Medio":1,"Alto":2,"Critico":3}.get(x, 1)
RankImpact(x) ==
    CASE x = "Bajo" -> 0 [] x = "Medio" -> 1 [] x = "Alto" -> 2 [] x = "Critico" -> 3
      [] OTHER -> 1

\* x or d ("" stands for None)
OrElse(x, d) == IF x = "" THEN d ELSE x

RiskRule(ci_criticality, change_impact, priority, risk_result) ==
    [ci_criticality |-> ci_criticality, change_impact |-> change_impact,
     priority |-> priority, risk_result |-> risk_result]

\* (col IS NULL OR col = ?): a NULL parameter equals nothing
NullOrEqual(col, param) == col = "" \/ (param # "" /\ col = param)

\* the rows of the query on risk_rules
RiskRuleRows(rules, crit, change_impact, priority) ==
    {r \in rules : /\ NullOrEqual(r.ci_criticality, crit)
                   /\ NullOrEqual(r.change_impact, change_impact)
                   /\ NullOrEqual(r.priority, priority)}

\* the default heuristic's score
RiskScore(crit, change_impact, priority) ==
    RankPriority(OrElse(crit, "Media")) + RankImpact(OrElse(change_impact, "Medio"))
        + RankPriority(priority)

\* thresholds that would ask for more than 7 and more than 5
RiskOfScoreAbove(score) ==
    IF score > 7 THEN "Alto" ELSE IF score > 5 THEN "Medio" ELSE "Bajo"

\* the thresholds of the heuristic
RiskOfScore(score) ==
    IF score >= 7 THEN "Alto" ELSE IF score >= 5 THEN "Medio" ELSE "Bajo"

\* auto_change_risk(ci_id, change_impact, priority), crit being the criticality
\* of the CI ("" without CI): the results it may give (LIMIT 1 without ORDER
\* BY returns any one of the matching rules)
auto_change_risk(rules, crit, change_impact, priority) ==
    IF RiskRuleRows(rules, crit, change_impact, priority) # {}
    THEN {r.risk_result : r \in RiskRuleRows(rules, crit, change_impact, priority)}
    ELSE {RiskOfScore(RiskScore(crit, change_impact, priority))}

\* the Change form rendered with a CI of criticality crit (or none), an impact
\* of the change and a priority: "Riesgo estimado (auto)"
RiskForm(crit, change_impact, priority) ==
    /\ \E res \in auto_change_risk(risk_rules, crit, change_impact, priority) :
          risk' = [crit |-> crit, change_impact |-> change_impact,
                   priority |-> priority, result |-> res]
    /\ last' = RanForm("risk", "", NoUser, 0, <<>>, "", "", TRUE,
                       <<crit, change_impact, priority>>)
    /\ UNCHANGED <<users, tickets, approvals, resets, now, ssoSecret, auth, qp, pc, loc,
                   how, spent>>
    /\ UNCHANGED seeded
    /\ UNCHANGED <<service_catalog, service_priority_matrix, stock, comments,
                   risk_rules, call>>

-----------------------------------------------------------------------------
(* run_query and run_script: _retry_migrating, statement by statement       *)

\* texts of errors, as sequences of words and signs
NoSuchTable(t)      == <<"no", "such", "table", ":", t>>
NoSuchColumn(c)     == <<"no", "such", "column", ":", c>>
HasNoColumn(t, c)   == <<"table", t, "has", "no", "column", "named", c>>
DuplicateColumn(c)  == <<"duplicate", "column", "name", ":", c>>
UniqueFailed(t, c)  == <<"UNIQUE", "constraint", "failed", ":", t, ".", c>>
RecursionError      == <<"maximum", "recursion", "depth", "exceeded">>

\* pandas.read_sql_query raises DatabaseError("Execution failed on sql '...': ...")
PandasError(sql, e) == <<"Execution", "failed", "on", "sql", "'", sql, "'", ":">> \o e

\* k in s
Infix(k, s) == \E i \in 1..(Len(s) - Len(k) + 1) : SubSeq(s, i, i + Len(k) - 1) = k

MigrationKeys ==
    { <<"no", "such", "column">>, <<"has", "no", "column">>, <<"no", "such", "table">> }

\* any(k in str(e) for k in [...])
NeedsMigration(e) == \E k \in MigrationKeys : Infix(k, e)

\* a statement: the helper it goes through, its verb, the table and the
\* column or settings key it names ("" for none), and whether it gives a row
\* a UNIQUE column already holds
Stmt(sql, via, verb, table, column, key, dup) ==
    [sql |-> sql, via |-> via, verb |-> verb, table |-> table, column |-> column,
     key |-> key, dup |-> dup]

\* the error sqlite raises for the statement on the file, <<>> for none
SqliteError(st, sc, sets) ==
    IF st.verb \in {"PRAGMA", "CREATE"} THEN <<>>
    ELSE IF st.table \notin sc.tables THEN NoSuchTable(st.table)
    ELSE IF st.verb = "ALTER"
         THEN IF <<st.table, st.column>> \in sc.columns
              THEN DuplicateColumn(st.column) ELSE <<>>
    ELSE IF st.column # "" /\ <<st.table, st.column>> \notin sc.columns
         THEN IF st.verb = "INSERT" THEN HasNoColumn(st.table, st.column)
              ELSE NoSuchColumn(st.column)
    ELSE IF st.verb = "INSERT" /\ (st.dup \/ st.key \in DOMAIN sets)
         THEN UniqueFailed(st.table, IF st.key = "" THEN "username" ELSE "key")
    ELSE <<>>

\* the exception fn raises, as _retry_migrating sees it
ErrorOf(st, sc, sets) ==
    IF SqliteError(st, sc, sets) # <<>> /\ st.via = "run_query"
    THEN PandasError(st.sql, SqliteError(st, sc, sets))
    ELSE SqliteError(st, sc, sets)

\* what a statement that succeeds returns: whether PRAGMA table_info lists the
\* column, whether the SELECT on settings finds the key; TRUE otherwise
ResultOf(st, sc, sets) ==
    CASE st.verb = "PRAGMA" -> <<st.table, st.column>> \in sc.columns
      [] st.verb = "SELECT" /\ st.key # "" -> st.key \in DOMAIN sets
      [] OTHER -> TRUE

\* the schema after a statement that succeeds
SchemaAfter(st, sc) ==
    CASE st.verb = "ALTER" -> [sc EXCEPT !.columns = @ \cup {<<st.table, st.column>>}]
      [] st.verb = "CREATE" -> [sc EXCEPT !.tables = @ \cup {st.table}]
      [] OTHER -> sc

\* the settings after a statement that succeeds
SettingsAfter(st, sets) ==
    IF st.verb = "INSERT" /\ st.key # ""
    THEN InsertOrIgnore(sets, [k \in {st.key} |-> SMTP_DEFAULTS[k]])
    ELSE sets

\* add_cols_tickets and the list of products: table, column, whether an UPDATE
\* of the default follows the ALTER
MigrateColumns ==
    << <<"tickets", "catalog_id", FALSE>>, <<"tickets", "sla_hours", TRUE>>,
       <<"products", "brand", TRUE>> >>

ColumnExists(c) == Stmt("table_info", "run_query", "PRAGMA", c[1], c[2], "", FALSE)
AlterTable(c)   == Stmt("alter", "run_script", "ALTER", c[1], c[2], "", FALSE)
UpdateNull(c)   == Stmt("update_null", "run_script", "UPDATE", c[1], c[2], "", FALSE)
CreateAssets    == Stmt("create_assets", "run_script", "CREATE", "assets", "", "", FALSE)
SelectSetting(k) == Stmt("select_1", "run_query", "SELECT", "settings", "key", k, FALSE)
InsertSetting(k) == Stmt("insert_setting", "run_script", "INSERT", "settings", "key", k,
                         FALSE)

\* frames: a call of _retry_migrating(fn) and a call of migrate_schema()
RetryFrame(st) == [kind |-> "retry", stmt |-> st, pc |-> "try1"]
MigrateFrame ==
    [kind |-> "migrate", pc |-> "init_sql", cols |-> MigrateColumns,
     keys |-> DOMAIN SMTP_DEFAULTS, ret |-> FALSE]

\* an exception leaves the frame on top: the frames it passes, down to the
\* try/except around the CREATE TABLE of assets or to the caller
RECURSIVE Unwind(_)
Unwind(stack) ==
    IF stack = <<>> THEN <<>>
    ELSE IF Head(stack).kind = "migrate" /\ Head(stack).pc = "assets_try" THEN stack
    ELSE Unwind(Tail(stack))

\* the frames of one call leave the other tables alone
CallFrame ==
    /\ UNCHANGED <<users, tickets, approvals, resets, now, ssoSecret, auth, qp, pc, loc,
                   last, how, spent>>
    /\ UNCHANGED <<sla_policies, priority_matrix, masters>>
    /\ UNCHANGED <<service_catalog, service_priority_matrix, stock, comments,
                   risk_rules, risk>>

\* the exception e leaves the frame on top of the stack
Raise(e) ==
    call' = [call EXCEPT !.stack = Unwind(Tail(call.stack)),
                         !.outcome = IF Unwind(Tail(call.stack)) = <<>>
                                     THEN "raised" ELSE @,
                         !.error = IF Unwind(Tail(call.stack)) = <<>> THEN e ELSE @,
                         !.fn_calls = IF Len(call.stack) = 1 THEN @ + 1 ELSE @,
                         !.first = IF Len(call.stack) = 1 /\ Head(call.stack).pc = "try1"
                                   THEN e ELSE @,
                         !.second = IF Len(call.stack) = 1 /\ Head(call.stack).pc = "try2"
                                    THEN e ELSE @]

\* a frame is put on the stack, or the interpreter's limit is met
Push(frame, under) ==
    IF Len(call.stack) >= MaxDepth
    THEN call' = [call EXCEPT !.stack = Unwind(Tail(call.stack)),
                              !.outcome = IF Unwind(Tail(call.stack)) = <<>>
                                          THEN "raised" ELSE @,
                              !.error = IF Unwind(Tail(call.stack)) = <<>>
                                        THEN RecursionError ELSE @]
    ELSE call' = [call EXCEPT !.stack = <<frame, under>> \o Tail(call.stack),
                              !.migrations = IF frame.kind = "migrate" THEN @ + 1 ELSE @]

\* a page calls run_query or run_script with the statement
Call(st) ==
    /\ call.stack = <<>>
    /\ call' = [NoCall EXCEPT !.stack = <<RetryFrame(st)>>, !.stmt = st.sql]
    /\ UNCHANGED <<schema, settings>>
    /\ CallFrame

\* fn(*args, **kwargs), in the try or in the handler
TryFn ==
    /\ call.stack # <<>>
    /\ Head(call.stack).kind = "retry"
    /\ Head(call.stack).pc \in {"try1", "try2"}
    /\ LET f == Head(call.stack)
           e == ErrorOf(f.stmt, schema, settings)
       IN  IF e = <<>>
           THEN /\ schema' = SchemaAfter(f.stmt, schema)
                /\ settings' = SettingsAfter(f.stmt, settings)
                /\ call' = [call EXCEPT
                      !.stack = IF Len(call.stack) = 1 THEN <<>>
                                ELSE <<[call.stack[2] EXCEPT
                                          !.ret = ResultOf(f.stmt, schema, settings)]>>
                                     \o Tail(Tail(call.stack)),
                      !.outcome = IF Len(call.stack) = 1 THEN "returned" ELSE @,
                      !.fn_calls = IF Len(call.stack) = 1 THEN @ + 1 ELSE @]
           ELSE /\ UNCHANGED <<schema, settings>>
                /\ IF f.pc = "try1" /\ NeedsMigration(e)
                   THEN call' = [call EXCEPT
                          !.stack = <<[f EXCEPT !.pc = "except"]>> \o Tail(call.stack),
                          !.fn_calls = IF Len(call.stack) = 1 THEN @ + 1 ELSE @,
                          !.first = IF Len(call.stack) = 1 THEN e ELSE @]
                   ELSE Raise(e)
    /\ CallFrame

\* migrate_schema() in the handler; fn is called again when it returns
EnterMigrate ==
    /\ call.stack # <<>>
    /\ Head(call.stack).kind = "retry"
    /\ Head(call.stack).pc = "except"
    /\ Push(MigrateFrame, [Head(call.stack) EXCEPT !.pc = "try2"])
    /\ UNCHANGED <<schema, settings>>
    /\ CallFrame

\* migrate_schema() goes on to its next statement
MigrateStep ==
    /\ call.stack # <<>>
    /\ Head(call.stack).kind = "migrate"
    /\ LET f == Head(call.stack)
           k == CHOOSE key \in f.keys : TRUE
           goes(label) == call' = [call EXCEPT !.stack =
                              <<[f EXCEPT !.pc = label]>> \o Tail(call.stack)]
           next_col == call' = [call EXCEPT !.stack =
                           <<[f EXCEPT !.pc = "columns", !.cols = Tail(@)]>>
                           \o Tail(call.stack)]
           next_key == call' = [call EXCEPT !.stack =
                           <<[f EXCEPT !.pc = "settings", !.keys = @ \ {k}]>>
                           \o Tail(call.stack)]
           calls(st, label) == Push(RetryFrame(st), [f EXCEPT !.pc = label])
       IN  /\ schema' = IF f.pc = "init_sql" THEN ExecInitSql(schema) ELSE schema
           /\ CASE f.pc = "init_sql" -> goes("columns")
                [] f.pc = "columns" ->
                     IF f.cols = <<>> THEN calls(CreateAssets, "assets_try")
                     ELSE calls(ColumnExists(Head(f.cols)), "exists")
                [] f.pc = "exists" ->
                     IF f.ret THEN next_col
                     ELSE calls(AlterTable(Head(f.cols)), "altered")
                [] f.pc = "altered" ->
                     IF Head(f.cols)[3] THEN calls(UpdateNull(Head(f.cols)), "updated")
                     ELSE next_col
                [] f.pc = "updated" -> next_col
                [] f.pc = "assets_try" -> goes("settings")
                [] f.pc = "settings" ->
                     IF f.keys = {}
                     THEN call' = [call EXCEPT !.stack = Tail(call.stack)]
                     ELSE calls(SelectSetting(k), "selected")
                [] f.pc = "selected" ->
                     IF f.ret THEN next_key ELSE calls(InsertSetting(k), "inserted")
                [] f.pc = "inserted" -> next_key
    /\ UNCHANGED settings
    /\ CallFrame

-----------------------------------------------------------------------------
(* Configuration (admins): services, matrices, SLA policies, settings       *)

MaxServices == 1    \* rows of service_catalog
MaxPolicies == 11   \* rows of sla_policies (the seed has ten)

ServiceRow(name, process, default_priority, policy_id) ==
    [name |-> name, process |-> process, default_priority |-> default_priority,
     policy_id |-> policy_id]

\* an INSERT, or the UPDATE that follows its IntegrityError, on a keyed table
Upsert(f, k, v) == [j \in DOMAIN f \cup {k} |-> IF j = k THEN v ELSE f[j]]

\* a run of page_config for an admin that handles the form `op`
ConfigRun(s, op, t, arg, ok, form) ==
    /\ pc[s] = "idle"
    /\ \E d \in PreludeDraws(qp[s]) :
         LET m == Prelude(s, d)
         IN  /\ Router(m.auth, "config") = "config"
             /\ "config" \in Menu(m.auth.role)
             /\ m.auth.role = "admin"
             /\ Fits(m.users)
             /\ users' = m.users
             /\ auth' = [auth EXCEPT ![s] = m.auth]
             /\ how' = [how EXCEPT ![s] = m.how]
             /\ last' = RanForm(op, s, m.auth, t, arg, "", "", ok, form)
    /\ UNCHANGED <<tickets, approvals, resets, now, ssoSecret, qp, loc, spent>>
    /\ UNCHANGED <<stock, comments, risk_rules, risk, call>>

\* "Agregar servicio": pid is the policy chosen (0: none); name is UNIQUE, the
\* INSERT of a name in use raises
AddService(s, n, p2, dp, pid) ==
    LET free == \A i \in 1..Len(service_catalog) : service_catalog[i].name # Strip(n)
    IN  /\ Len(service_catalog) < MaxServices
        /\ pid \in 0..Len(sla_policies)
        /\ ConfigRun(s, "add_cat", Len(service_catalog) + 1, n, free, <<p2, dp, pid>>)
        /\ service_catalog' = IF free
                               THEN Append(service_catalog, ServiceRow(Strip(n), p2, dp, pid))
                               ELSE service_catalog
        /\ pc' = IF free THEN [pc EXCEPT ![s] = "rerun"] ELSE pc
        /\ InitDbTables
        /\ UNCHANGED service_priority_matrix

\* "Guardar combinacion por servicio"
SaveServiceMatrix(s, cid, u, i, pr) ==
    /\ cid \in 1..Len(service_catalog)
    /\ ConfigRun(s, "add_spm", cid, <<>>, TRUE, <<u, i, pr>>)
    /\ service_priority_matrix' = Upsert(service_priority_matrix, <<cid, u, i>>, pr)
    /\ pc' = [pc EXCEPT ![s] = "rerun"]
    /\ InitDbTables
    /\ UNCHANGED service_catalog

\* "Agregar politica"
AddPolicy(s, p, pr, rh, rs) ==
    /\ Len(sla_policies) < MaxPolicies
    /\ rh >= 1 /\ rs >= 1
    /\ ConfigRun(s, "add_sla", Len(sla_policies) + 1, <<>>, TRUE, <<p, pr, rh, rs>>)
    /\ sla_policies' = Append(init_db(Db).sla_policies, PolicyRow(p, pr, rh, rs, 1))
    /\ pc' = [pc EXCEPT ![s] = "rerun"]
    /\ priority_matrix' = init_db(Db).priority_matrix
    /\ masters' = init_db(Db).masters
    /\ settings' = init_db(Db).settings
    /\ schema' = init_db(Db).schema
    /\ UNCHANGED <<service_catalog, service_priority_matrix>>

\* set_setting(key, value) on the table st
set_setting(st, key, value) == Upsert(st, key, value)

\* "Guardar notificaciones/webhooks" with one field changed: the form writes
\* the field typed (stripped, lines 1060-1061); the other fields are written
\* back as they were read
\* "Guardar area": the INSERT, or the UPDATE of the row of that name when the
\* INSERT fails on UNIQUE(name); then st.rerun()
SaveArea(s, name, emails, active) ==
    /\ active \in {0, 1}
    /\ ConfigRun(s, "add_area", 0, <<>>, TRUE, <<name, emails, active>>)
    /\ masters' = {m \in init_db(Db).masters : ~(m[1] = "approval_areas" /\ m[2] = name)}
                  \cup {<<"approval_areas", name, Strip(emails), active>>}
    /\ pc' = [pc EXCEPT ![s] = "rerun"]
    /\ sla_policies' = init_db(Db).sla_policies
    /\ priority_matrix' = init_db(Db).priority_matrix
    /\ settings' = init_db(Db).settings
    /\ schema' = init_db(Db).schema
    /\ UNCHANGED <<service_catalog, service_priority_matrix>>

SaveSettings(s, key, value) ==
    /\ key \in DOMAIN SMTP_DEFAULTS \ {"smtp_password"}
    /\ ConfigRun(s, "smtp_form", 0, <<>>, TRUE, <<key, value>>)
    /\ settings' = set_setting(init_db(Db).settings, key, value)
    /\ pc' = pc
    /\ sla_policies' = init_db(Db).sla_policies
    /\ priority_matrix' = init_db(Db).priority_matrix
    /\ masters' = init_db(Db).masters
    /\ schema' = init_db(Db).schema
    /\ UNCHANGED <<service_catalog, service_priority_matrix>>

-----------------------------------------------------------------------------
(* Inventory: stock movements                                               *)

MaxQty == 3         \* the largest quantity of a stock row, in units

Max(a, b) == IF a >= b THEN a ELSE b

\* ids of the rows of a master table (AUTOINCREMENT: 1..n)
MasterIds(ms, table) == 1..Cardinality({m \in ms : m[1] = table})

\* the database file with a second warehouse in it (no page inserts warehouses)
LegacyMasters == SeedMasters \cup {<<"warehouses", "Bodega Norte">>}

\* the sum as it would be stored without the floor of zero
AdjustStockUnclamped(st, product_id, warehouse_id, delta) ==
    LET k == <<product_id, warehouse_id>>
    IN  IF k \notin DOMAIN st
        THEN [j \in DOMAIN st \cup {k} |-> IF j = k THEN delta ELSE st[j]]
        ELSE [st EXCEPT ![k] = st[k] + delta]

\* adjust_stock(product_id, warehouse_id, delta) on the table st
adjust_stock(st, product_id, warehouse_id, delta) ==
    LET k == <<product_id, warehouse_id>>
    IN  IF k \notin DOMAIN st
        THEN [j \in DOMAIN st \cup {k} |-> IF j = k THEN Max(0, delta) ELSE st[j]]
        ELSE [st EXCEPT ![k] = Max(0, st[k] + delta)]

\* the quantity the stock table has for a product in a warehouse
Available(st, product_id, warehouse_id) ==
    IF <<product_id, warehouse_id>> \in DOMAIN st
    THEN st[<<product_id, warehouse_id>>] ELSE 0

MovementTypes == {"ENTRADA", "SALIDA", "TRANSFERENCIA", "AJUSTE"}

\* "Registrar movimiento": the destination is credited first, then the origin
\* is debited (an AJUSTE debits as a SALIDA does)
Movement(s, mtype, pid, from_wh, to_wh, qty) ==
    /\ pc[s] = "idle"
    /\ \E d \in PreludeDraws(qp[s]) :
         LET m  == Prelude(s, d)
             a  == m.auth
             ms == init_db(Db).masters
             s1 == IF mtype \in {"ENTRADA", "TRANSFERENCIA"}
                   THEN adjust_stock(stock, pid, to_wh, qty) ELSE stock
             s2 == IF mtype \in {"SALIDA", "TRANSFERENCIA", "AJUSTE"}
                   THEN adjust_stock(s1, pid, from_wh, -qty) ELSE s1
         IN  /\ Router(a, "movimientos") = "movimientos"
             /\ "movimientos" \in Menu(a.role)
             /\ a.role \in {"admin", "agente"}
             /\ Fits(m.users)
             /\ pid \in MasterIds(ms, "products")
             /\ from_wh \in MasterIds(ms, "warehouses")
             /\ to_wh \in MasterIds(ms, "warehouses")
             /\ qty >= 0
             /\ \A k \in DOMAIN s2 : s2[k] <= MaxQty
             /\ users' = m.users
             /\ auth' = [auth EXCEPT ![s] = a]
             /\ how' = [how EXCEPT ![s] = m.how]
             /\ stock' = s2
             /\ last' = RanForm("movimiento", s, a, pid, <<>>,
                                Available(stock, pid, from_wh),
                                Available(s2, pid, from_wh), TRUE,
                                <<mtype, from_wh, to_wh, qty>>)
    /\ InitDbTables
    /\ UNCHANGED <<service_catalog, service_priority_matrix, comments, risk_rules,
                   risk, call>>
    /\ UNCHANGED <<tickets, approvals, resets, now, ssoSecret, qp, pc, loc, spent>>

\* "Registrar movimiento" of an ENTRADA or a SALIDA, up to the SELECT of
\* adjust_stock: the run has read the row of (pid, wh), <<>> when there is none
StockRead(s, mtype, pid, wh, qty) ==
    /\ pc[s] = "idle"
    /\ mtype \in {"ENTRADA", "SALIDA"}
    /\ \E d \in PreludeDraws(qp[s]) :
         LET m == Prelude(s, d)
             a == m.auth
         IN  /\ Router(a, "movimientos") = "movimientos"
             /\ "movimientos" \in Menu(a.role)
             /\ a.role \in {"admin", "agente"}
             /\ Fits(m.users)
             /\ pid \in MasterIds(init_db(Db).masters, "products")
             /\ wh \in MasterIds(init_db(Db).masters, "warehouses")
             /\ qty >= 0
             /\ users' = m.users
             /\ auth' = [auth EXCEPT ![s] = a]
             /\ how' = [how EXCEPT ![s] = m.how]
             /\ loc' = [loc EXCEPT ![s] =
                          [NoLoc EXCEPT !.form =
                             <<pid, wh, IF mtype = "ENTRADA" THEN qty ELSE -qty,
                               IF <<pid, wh>> \in DOMAIN stock
                               THEN <<stock[<<pid, wh>>]>> ELSE <<>> >>]]
             /\ pc' = [pc EXCEPT ![s] = "stock_read"]
             /\ last' = RanForm("stock_read", s, a, pid, <<>>, 0, 0, TRUE, <<wh, qty>>)
    /\ InitDbTables
    /\ UNCHANGED others
    /\ UNCHANGED <<tickets, approvals, resets, now, ssoSecret, qp, spent>>

\* the INSERT or UPDATE of adjust_stock and its commit, from the row read.
\* The INSERT of a row that exists by now raises (PRIMARY KEY); the UPDATE
\* writes the quantity computed from the row read
StockWrite(s) ==
    /\ pc[s] = "stock_read"
    /\ LET f   == loc[s].form
           k   == <<f[1], f[2]>>
           row == f[4]
           ok  == row = <<>> => k \notin DOMAIN stock
           new == IF row = <<>> THEN Max(0, f[3]) ELSE Max(0, row[1] + f[3])
       IN  /\ ok => new <= MaxQty
           /\ stock' = IF ok THEN Upsert(stock, k, new) ELSE stock
           /\ last' = RanForm("stock_write", s, auth[s], f[1], <<>>,
                              Available(stock, f[1], f[2]),
                              IF ok THEN new ELSE Available(stock, f[1], f[2]), ok,
                              <<f[2], f[3]>>)
    /\ loc' = [loc EXCEPT ![s] = NoLoc]
    /\ pc' = [pc EXCEPT ![s] = "idle"]
    /\ UNCHANGED seeded
    /\ UNCHANGED <<service_catalog, service_priority_matrix, comments, risk_rules,
                   risk, call>>
    /\ UNCHANGED <<users, tickets, approvals, resets, now, ssoSecret, auth, qp, how,
                   spent>>

-----------------------------------------------------------------------------
(* Specifications                                                           *)

\* the one browser of the specifications that need no second one
Solo == {"s1"}

InitSessions ==
    /\ auth = [s \in Sessions |-> NoUser]
    /\ qp = [s \in Sessions |-> NoParams]
    /\ pc = [s \in Sessions |-> "idle"]
    /\ loc = [s \in Sessions |-> NoLoc]
    /\ how = [s \in Sessions |-> NoHow]
    /\ last = Ran("init", "", NoUser, 0, "", "", TRUE)
    /\ spent = {}
    /\ now = 0
    /\ resets = <<>>

\* the tables init_db writes, as its first run on an empty file leaves them
InitSeeded ==
    /\ sla_policies = SeedPolicies
    /\ priority_matrix = SeedMatrix
    /\ masters = SeedMasters
    /\ settings = SMTP_DEFAULTS
    /\ schema = FullSchema

\* no service in the catalogue, no stock, no comment, no form or call open
InitCatalog == service_catalog = <<>> /\ service_priority_matrix = <<>>
InitStock   == stock = <<>>
InitOthers ==
    /\ InitCatalog
    /\ InitStock
    /\ comments = <<>>
    /\ risk_rules = {}
    /\ risk = NoRisk
    /\ call = NoCall

\* the users of every role, SSO not configured
InitLegacyUsers ==
    /\ InitSessions
    /\ users = LegacyUsers
    /\ ssoSecret = <<>>

\* a database that holds users of every role, SSO not configured
InitLegacy(dbs) ==
    /\ InitLegacyUsers
    /\ \E db \in dbs : tickets = db.tickets /\ approvals = db.approvals
    /\ InitSeeded
    /\ InitOthers

\* no database file yet: init_db creates and seeds it in the first run
InitEmpty ==
    /\ InitSessions
    /\ users = <<>>
    /\ tickets = <<>>
    /\ approvals = <<>>
    /\ ssoSecret \in {<<>>, <<"k">>}
    /\ sla_policies = <<>>
    /\ priority_matrix = <<>>
    /\ masters = {}
    /\ settings = <<>>
    /\ schema = [tables |-> {}, columns |-> {}]
    /\ InitOthers

\* the help desk: tickets, the tray, the Kanban
NextDesk ==
    \E s \in Solo :
        \/ \E name \in {S_admin, S_ana, S_vic, S_old}, pwd \in Pwds :
                LoginSubmit(s, name, pwd)
        \/ Logout(s)
        \/ Rerun(s)
        \/ \E itil \in {"Incidente", "Cambio"} : CreateTicket(s, itil)
        \/ \E t \in 1..Len(tickets), st \in Statuses,
              name \in {users[i].username : i \in 1..Len(users)} \cup {<<>>} :
                TraySave(s, t, st, name, <<>>, 0)
        \/ \E t \in 1..Len(tickets), e \in Statuses : KanbanBack(s, t, e)
        \/ \E t \in 1..Len(tickets), e \in Statuses : KanbanForward(s, t, e)

Spec == InitLegacy(LegacyDatabases) /\ [][NextDesk]_vars

\* the tray, with the comment field in use
NextComment ==
    \E s \in Solo :
        \/ \E name \in {S_admin, S_ana, S_vic} :
                LoginSubmit(s, name, IF name = S_vic THEN <<"q">> ELSE S_admin)
        \/ Logout(s)
        \/ Rerun(s)
        \/ \E t \in 1..Len(tickets), st \in Statuses, name \in {S_ana, <<>>},
              c \in Comments :
                TraySave(s, t, st, name, c, 0)

SpecComment == InitLegacy(LegacyDatabases \ {NoTickets}) /\ [][NextComment]_vars

\* the approval centre, two browsers
NextApprove ==
    \E s \in Sessions :
        \/ \E name \in {S_admin, S_ana, S_vic} : LoginSubmit(s, name, IF name = S_vic THEN <<"q">> ELSE S_admin)
        \/ Rerun(s)
        \/ \E j \in 1..Len(approvals), dec \in {"Aprobado", "Rechazado"} :
                DecideOpen(s, j, dec)
        \/ DecideWrite(s)
        \/ DecideRead(s)
        \/ DecideStore(s)

SpecApprove == InitLegacy({ChangeToApprove}) /\ [][NextApprove]_vars

\* the session layer, from an empty database
NextAuth ==
    \/ TickAuth
    \/ \E s \in Solo :
        \/ \E q \in QueryParams : Visit(s, q)
        \/ \E name \in LoginNames, pwd \in Pwds : LoginSubmit(s, name, pwd)
        \/ \E e \in SignupEmails, n \in SignupNames :
                Signup(s, e, n, <<"q">>, <<"1">>)
        \/ Logout(s)
        \/ Rerun(s)

SpecAuth == InitEmpty /\ [][NextAuth]_vars

\* password recovery
NextReset ==
    \/ TickReset
    \/ \E s \in Sessions :
        \/ \E ident \in {S_admin, <<" ">> \o S_ana \o AtX, S_old}, token \in Tokens :
                Forgot(s, ident, token)
        \/ \E typed \in Tokens \cup {<<"t", " ">>, <<"n">>} :
                CompleteReset(s, typed, <<"q">>)
        \/ ResetSetPassword(s, <<"1">>)
        \/ ResetMarkUsed(s)
        \/ Rerun(s)

SpecReset == InitLegacy({NoTickets}) /\ [][NextReset]_vars

\* SLA policies and global matrix a file may hold: the seed; a policy switched
\* off and no matrix (the users are older than both tables); a policy switched
\* off before the seed
PolicyOff == PolicyRow("Incidente", "Media", 2, 10, 0)
LegacyConfigs ==
    { [sla_policies |-> SeedPolicies, priority_matrix |-> SeedMatrix],
      [sla_policies |-> <<PolicyOff>>, priority_matrix |-> <<>>],
      [sla_policies |-> <<PolicyOff>> \o SeedPolicies, priority_matrix |-> SeedMatrix] }

\* the forms "Crear Ticket" is pressed with: service, process, urgency, impact,
\* priority
TicketForms ==
    { <<0, "Incidente", "Media", "Medio", "Auto">>,
      <<0, "Incidente", "Critica", "Critico", "Auto">>,
      <<0, "Solicitud", "Media", "Medio", "Baja">>,
      <<0, "Cambio", "Media", "Medio", "Auto">>,
      <<1, "Incidente", "Media", "Medio", "Auto">>,
      <<1, "Incidente", "Media", "Medio", "Alta">> }

\* the services "Agregar servicio" is pressed with: process, default priority,
\* policy
ServiceForms ==
    { <<"Solicitud", "Baja", 0>>, <<"Solicitud", "Critica", 1>>, <<"Cambio", "Media", 0>> }

InitNuevo ==
    /\ auth = [s \in Sessions |-> NoUser]
    /\ qp = [s \in Sessions |-> NoParams]
    /\ pc = [s \in Sessions |-> "idle"]
    /\ loc = [s \in Sessions |-> NoLoc]
    /\ how = [s \in Sessions |-> NoHow]
    /\ last = Ran("init", "", NoUser, 0, "", "", TRUE)
    /\ spent = {}
    /\ now \in {0, HourSeconds \div 2}
    /\ resets = <<>>
    /\ users = LegacyUsers
    /\ ssoSecret = <<>>
    /\ tickets = <<>> /\ approvals = <<>>
    /\ \E f \in LegacyConfigs :
          sla_policies = f.sla_policies /\ priority_matrix = f.priority_matrix
    /\ masters = SeedMasters
    /\ settings = SMTP_DEFAULTS
    /\ schema = FullSchema
    /\ InitOthers

\* new tickets, over the catalogue and the policies an admin configures
NextNuevo ==
    \E s \in Solo :
        \/ LoginSubmit(s, S_admin, S_admin)
        \/ Rerun(s)
        \/ \E f \in TicketForms : NewTicket(s, f[1], f[2], f[3], f[4], f[5])
        \/ \E f \in ServiceForms : AddService(s, <<"v", "p", "n", " ">>, f[1], f[2], f[3])
        \/ SaveServiceMatrix(s, 1, "Media", "Medio", "Alta")
        \/ AddPolicy(s, "Solicitud", "Baja", 1, 5)

SpecNuevo == InitNuevo /\ [][NextNuevo]_vars

\* the risk estimate: no rule, or a rule for every Change of impact Alto on a
\* CI of criticality Critica (no page writes risk_rules)
LegacyRiskRules == {{}, {RiskRule("Critica", "Alto", "", "Alto")}}

InitRisk ==
    /\ InitLegacyUsers
    /\ tickets = <<>> /\ approvals = <<>>
    /\ InitSeeded
    /\ InitCatalog /\ InitStock
    /\ comments = <<>>
    /\ risk_rules \in LegacyRiskRules
    /\ risk = NoRisk
    /\ call = NoCall

NextRisk ==
    \E crit \in Priorities \cup {""}, change_impact \in Impacts \cup {""},
       priority \in Priorities :
        RiskForm(crit, change_impact, priority)

SpecRisk == InitRisk /\ [][NextRisk]_vars

\* files an older version of the program left: every table and column; the
\* columns migrate_schema adds missing; those and closed_at missing; the tables
\* assets and settings missing as well
LegacyFiles ==
    { [schema |-> FullSchema, settings |-> SMTP_DEFAULTS],
      [schema |-> [tables |-> Tables, columns |-> CreatedColumns \ AddedColumns],
       settings |-> [k \in {"smtp_server"} |-> "mail.example.org"]],
      [schema |-> [tables |-> Tables,
                   columns |-> CreatedColumns
                                 \ (AddedColumns \cup {<<"tickets", "closed_at">>})],
       settings |-> SMTP_DEFAULTS],
      [schema |-> [tables |-> Tables \ {"assets", "settings"},
                   columns |-> {<<"users", "active">>, <<"tickets", "closed_at">>}],
       settings |-> <<>>] }

\* statements of the pages: the tray's query of tickets, its UPDATE, the
\* INSERT of a product, get_setting, the INSERT of a user whose name is taken
PageStatements ==
    { Stmt("select_tickets", "run_query", "SELECT", "tickets", "catalog_id", "", FALSE),
      Stmt("update_ticket", "run_script", "UPDATE", "tickets", "closed_at", "", FALSE),
      Stmt("insert_product", "run_script", "INSERT", "products", "brand", "", FALSE),
      Stmt("get_setting", "run_query", "SELECT", "settings", "key", "smtp_port", FALSE),
      Stmt("insert_user", "run_script", "INSERT", "users", "active", "", TRUE) }

InitRetry ==
    /\ InitLegacyUsers
    /\ tickets = <<>> /\ approvals = <<>>
    /\ sla_policies = SeedPolicies
    /\ priority_matrix = SeedMatrix
    /\ masters = SeedMasters
    /\ \E f \in LegacyFiles : schema = f.schema /\ settings = f.settings
    /\ InitOthers

NextRetry ==
    \/ \E st \in PageStatements : Call(st)
    \/ TryFn
    \/ EnterMigrate
    \/ MigrateStep

SpecRetry == InitRetry /\ [][NextRetry]_vars /\ WF_vars(NextRetry)

\* init_db on every run: an empty file, or a file of an older version with
\* its users and seed rows
InitFiles ==
    \/ InitEmpty /\ ssoSecret = <<>>
    \/ /\ InitLegacyUsers
       /\ tickets = <<>> /\ approvals = <<>>
       /\ sla_policies = SeedPolicies
       /\ priority_matrix = SeedMatrix
       /\ masters = SeedMasters
       /\ \E f \in LegacyFiles : schema = f.schema /\ settings = f.settings
       /\ InitOthers

\* values an admin types into the notification form
SettingsTyped ==
    { <<"smtp_server", "mail.example.org">>, <<"smtp_port", "25">>,
      <<"notif_on_create", "0">>, <<"cab_emails", "cab@example.org">> }

NextInit ==
    \E s \in {"s1"} :
        \/ Rerun(s)
        \/ \E pwd \in Pwds : LoginSubmit(s, S_admin, pwd)
        \/ Logout(s)
        \/ \E kv \in SettingsTyped : SaveSettings(s, kv[1], kv[2])
        \/ AddPolicy(s, "Cambio", "Alta", 4, 24)

SpecInit == InitFiles /\ [][NextInit]_vars

\* two browsers on "Tickets - Nuevo", statement by statement
NextCodes ==
    \E s \in Sessions :
        \/ \E name \in {S_admin, S_vic} :
                LoginSubmit(s, name, IF name = S_vic THEN <<"q">> ELSE S_admin)
        \/ Rerun(s)
        \/ \E itil \in {"Incidente", "Solicitud"} : NuevoSubmit(s, itil)
        \/ NuevoInsert(s)

SpecCodes == InitLegacy({NoTickets}) /\ [][NextCodes]_vars

\* texts typed into "Correos Manager (coma)", "Correos CAB (coma)" and the
\* "Emails (coma)" of an area
EmailTexts == {<<>>, <<",", " ">>, <<"m@x", ",", " ", "n@x">>}

\* what "Guardar area" is given for an area: no address, or switched off
AreaForms == {<<<<>>, 1>>, <<<<"s@x">>, 0>>}

\* a file of an earlier release: users of every role, a tickets table without
\* the CHECK on category, no approver configured yet
InitChange ==
    /\ InitLegacyUsers
    /\ tickets = <<>>
    /\ approvals = <<>>
    /\ sla_policies = SeedPolicies
    /\ priority_matrix = SeedMatrix
    /\ masters = SeedMasters
    /\ settings = [SMTP_DEFAULTS EXCEPT !["mgr_emails"] = <<>>, !["cab_emails"] = <<>>]
    /\ schema = [FullSchema EXCEPT !.columns = @ \ {CategoryCheck}]
    /\ InitOthers

\* the admin sets the approvers in "Configuracion"; Changes are created
NextChange ==
    \E s \in Solo :
        \/ LoginSubmit(s, S_admin, S_admin)
        \/ Rerun(s)
        \/ \E key \in {"mgr_emails", "cab_emails"}, v \in EmailTexts : SaveSettings(s, key, v)
        \/ \E name \in {"Seguridad", "Operaciones"}, f \in AreaForms :
                SaveArea(s, name, f[1], f[2])
        \/ \E itil \in {"Incidente", "Cambio"} : CreateTicket(s, itil)

SpecChange == InitChange /\ [][NextChange]_vars

\* the hours typed into "Ajustar SLA resolucion (+h)"
MoreHours == {0, 24}

\* an admin works a ticket over some days, extends its deadline, reads the report
NextSla ==
    \E s \in Solo :
        \/ LoginSubmit(s, S_admin, S_admin)
        \/ Rerun(s)
        \/ \E t \in 1..Len(tickets), st \in Statuses, h \in MoreHours :
                TraySave(s, t, st, <<>>, <<>>, h)
        \/ Report(s)
        \/ TickDay

SpecSla == InitLegacy({[tickets |-> <<TicketRow("Incidente", 3)>>, approvals |-> <<>>]})
           /\ [][NextSla]_vars

\* two browsers on "Movimientos", adjust_stock statement by statement
NextStock ==
    \E s \in Sessions :
        \/ \E name \in {S_admin, S_ana} : LoginSubmit(s, name, S_admin)
        \/ Rerun(s)
        \/ \E mtype \in {"ENTRADA", "SALIDA"}, qty \in 1..MaxQty :
                StockRead(s, mtype, 1, 1, qty)
        \/ StockWrite(s)

SpecStock == InitLegacy({NoTickets}) /\ [][NextStock]_vars

\* the inventory: a file with two warehouses and the demo product
InitInventory ==
    /\ InitLegacyUsers
    /\ tickets = <<>> /\ approvals = <<>>
    /\ sla_policies = SeedPolicies
    /\ priority_matrix = SeedMatrix
    /\ masters \in {SeedMasters, LegacyMasters}
    /\ settings = SMTP_DEFAULTS
    /\ schema = FullSchema
    /\ InitOthers

NextInventory ==
    \E s \in Solo :
        \/ \E name \in {S_admin, S_ana, S_vic} :
                LoginSubmit(s, name, IF name = S_vic THEN <<"q">> ELSE S_admin)
        \/ Logout(s)
        \/ Rerun(s)
        \/ \E mtype \in MovementTypes, from_wh \in 1..2, to_wh \in 1..2, qty \in 0..MaxQty :
                Movement(s, mtype, 1, from_wh, to_wh, qty)

SpecInventory == InitInventory /\ [][NextInventory]_vars

-----------------------------------------------------------------------------
(* Properties                                                               *)

\* C1: every change of a ticket's status made by a non-admin, in the tray or
\* in the Kanban, goes from old to new only if new is in the ITIL table
\* (Abierto -> En Progreso, Cerrado; En Progreso -> Resuelto, Cerrado;
\* Resuelto -> Cerrado, En Progreso; Cerrado -> nothing).
C1_NonAdminFollowsTable ==
    ( /\ last.op \in {"tray", "kanban"} /\ last.ok
      /\ last.user.role # "admin"
      /\ last.new # last.old )
    => \/ last.old = "Abierto"     /\ last.new \in {"En Progreso", "Cerrado"}
       \/ last.old = "En Progreso" /\ last.new \in {"Resuelto", "Cerrado"}
       \/ last.old = "Resuelto"    /\ last.new \in {"Cerrado", "En Progreso"}

\* C2: "Guardar cambios" of an admin is never rejected, neither by the
\* transition table nor by the approval check of a Change: the ticket gets
\* the status the admin chose, whatever the status it had.
C2_AdminTrayNeverRejected ==
    (last.op = "tray" /\ last.user.role = "admin")
    => last.ok /\ tickets[last.t].status = last.new

\* an admin took a Change without approval rows out of Cerrado, into Resuelto
C2_AdminLeftCerrado ==
    /\ last.op = "tray" /\ last.user.role = "admin" /\ last.ok
    /\ last.old = "Cerrado" /\ last.new = "Resuelto"
    /\ tickets[last.t].itil_type = "Cambio"
    /\ tickets[last.t].status = "Resuelto"
    /\ \A j \in 1..Len(approvals) : approvals[j].ticket_id # last.t

\* C3: a Change never enters Resuelto or Cerrado through an action of a
\* non-admin (tray or Kanban) unless it then has at least one approval row
\* and all its approval rows are Aprobado.
C3_ChangeNeedsApprovals ==
    ( /\ last.op \in {"tray", "kanban"} /\ last.ok
      /\ last.user.role # "admin"
      /\ tickets[last.t].itil_type = "Cambio"
      /\ last.new \in {"Resuelto", "Cerrado"} /\ last.new # last.old )
    => /\ \E j \in 1..Len(approvals) : approvals[j].ticket_id = last.t
       /\ \A j \in 1..Len(approvals) :
             approvals[j].ticket_id = last.t => approvals[j].status = "Aprobado"

\* C4: every ticket's assigned_to is null or the id of an active user of role
\* agente (roles and active flags never change, so "when it was saved" is now).
C4_AssignedToActiveAgent ==
    \A t \in 1..Len(tickets) :
        \/ tickets[t].assigned_to = 0
        \/ /\ tickets[t].assigned_to \in 1..Len(users)
           /\ users[tickets[t].assigned_to].role = "agente"
           /\ users[tickets[t].assigned_to].active = 1

\* C5: when no decision is in progress, every ticket that received a decision
\* has approval_status Rechazado if one of its rows is Rechazado, Aprobado if
\* all its rows are Aprobado, Pendiente otherwise.
C5_OverallFollowsRows ==
    (\A s \in Sessions : pc[s] \notin {"ap_chosen", "ap_written", "ap_read"})
    => \A t \in 1..Len(tickets) :
          LET rows == {approvals[j].status :
                          j \in {k \in 1..Len(approvals) : approvals[k].ticket_id = t}}
          IN  rows \ {"Pendiente"} # {}
              => tickets[t].approval_status =
                    IF "Rechazado" \in rows THEN "Rechazado"
                    ELSE IF rows = {"Aprobado"} THEN "Aprobado" ELSE "Pendiente"

\* C6: an approval row changes only in a decision of a logged-in user who is
\* admin or whose session e-mail is the row's approver_email, and only that
\* row changes.
C6_OnlyApproverDecides ==
    [][ approvals' # approvals
        => /\ last'.op = "ap_write"
           /\ last'.user # NoUser
           /\ last'.user = auth[last'.s]
           /\ last'.t \in 1..Len(approvals)
           /\ \/ last'.user.role = "admin"
              \/ last'.user.email = approvals[last'.t].approver_email
           /\ approvals'[last'.t].status \in {"Aprobado", "Rechazado"}
           /\ \A j \in 1..Len(approvals) : j # last'.t => approvals'[j] = approvals[j]
      ]_vars

\* an agent decided the row that names the agent's e-mail
C6_AgentDecidedOwnRow ==
    /\ last.op = "ap_write" /\ last.user.role = "agente"
    /\ approvals[last.t].approver_email = last.user.email
    /\ approvals[last.t].status \in {"Aprobado", "Rechazado"}

\* C7: complete_password_reset returns False and changes no password_hash, no
\* password_salt and no password_resets row when no row has the token, or the
\* row is marked used, or the time is past one hour after the row was issued.
C7_BadTokenChangesNothing ==
    [][ ( /\ last'.op = "reset"
          /\ \A j \in 1..Len(resets) :
                resets[j].token = last'.arg
                => \/ resets[j].used = 1
                   \/ now > resets[j].created_at + 3600 )
        => /\ ~last'.ok
           /\ resets' = resets
           /\ Len(users') = Len(users)
           /\ \A i \in 1..Len(users) :
                 /\ users'[i].password_hash = users[i].password_hash
                 /\ users'[i].password_salt = users[i].password_salt
           /\ pc'[last'.s] = "idle"
      ]_vars

\* an unused token was refused because its hour had passed
C7_ExpiredTokenRefused ==
    /\ last.op = "reset" /\ ~last.ok
    /\ \E j \in 1..Len(resets) :
          /\ resets[j].token = last.arg /\ resets[j].used = 0
          /\ now > resets[j].created_at + 3600

\* C8: once complete_password_reset has returned True for a token, every
\* later call with that token returns False and changes no password.
C8_TokenSingleUse ==
    [][ (last'.op = "reset" /\ last'.arg \in spent)
        => /\ ~last'.ok
           /\ pc'[last'.s] = "idle"
           /\ users' = users
      ]_vars

\* a token that had reset a password was typed again and refused
C8_SpentTokenRefused ==
    /\ last.op = "reset" /\ last.arg \in spent /\ ~last.ok
    /\ \E j \in 1..Len(resets) : resets[j].token = last.arg /\ resets[j].used = 1

\* C9: auth_user is absent, or was set by a password login for an active row
\* of that username whose stored hash is hash_password(password, stored salt),
\* or by an SSO login with a non-empty secret, the signature
\* HMAC-SHA256(secret, "user:ts") and |now - ts| <= 600; a failed login leaves
\* it as it was, "Cerrar sesion" removes it, and only the login screens run
\* while it is absent.
C9_AuthUserProvenance ==
    /\ [](\A s \in Sessions :
            \/ auth[s] = NoUser
            \/ /\ how[s].via = "password"
               /\ auth[s].id \in 1..Len(users)
               /\ how[s].row = users[auth[s].id]
               /\ how[s].row.username = Strip(how[s].name)
               /\ how[s].row.username = auth[s].username
               /\ how[s].row.active = 1
               /\ how[s].row.password_hash
                    = <<"sha256", how[s].row.password_salt \o how[s].pwd>>
            \/ /\ how[s].via = "sso"
               /\ how[s].secret # <<>> /\ how[s].secret = ssoSecret
               /\ how[s].sig = <<"hmac-sha256", how[s].secret,
                                 how[s].user \o <<":">> \o Dec(how[s].ts)>>
               /\ how[s].at - how[s].ts <= 600 /\ how[s].ts - how[s].at <= 600
               /\ auth[s].username = how[s].user)
    /\ [](last.op \notin {"init", "tick", "login", "signup"} => last.user # NoUser)
    /\ [][ /\ (last'.op = "login" /\ ~last'.ok) => auth' = auth
           /\ last'.op = "logout" => auth'[last'.s] = NoUser
       ]_vars

\* a session is logged in by an SSO link whose ts is exactly 600 seconds old
C9_SsoAtWindowEdge ==
    \E s \in Sessions :
        /\ auth[s] # NoUser /\ how[s].via = "sso"
        /\ how[s].at - how[s].ts = 600

\* C10: accounts created after the seed are visors with a username no other
\* row has, no step changes a role or an active flag, and so, from an empty
\* database, the only admin is the seeded admin and nobody is agente.
C10_NewAccountsAreVisors ==
    /\ [](/\ \A i \in 1..Len(users) :
               /\ i = 1 => users[i].username = S_admin /\ users[i].role = "admin"
               /\ i > 1 => users[i].role = "visor"
               /\ users[i].role # "agente"
               /\ \A j \in 1..Len(users) :
                     users[i].username = users[j].username => i = j)
    /\ [][ /\ Len(users') >= Len(users)
           /\ \A i \in 1..Len(users) :
                 /\ users'[i].role = users[i].role
                 /\ users'[i].active = users[i].active
       ]_vars

\* a registration for admin@... got a name of its own, and the visor role
C10_SecondAdminNameIsVisor ==
    /\ last.op = "signup" /\ last.ok
    /\ Len(users) = 2
    /\ users[2].username = S_admin \o <<"1">>
    /\ users[2].role = "visor"

\* C11: after any sequence of ENTRADA, SALIDA, TRANSFERENCIA and AJUSTE of any
\* quantities every stock row has qty >= 0, and a SALIDA or AJUSTE of more than
\* the origin has leaves the origin at 0.
C11_StockNeverNegative ==
    /\ [](\A k \in DOMAIN stock : stock[k] >= 0)
    /\ [][ ( /\ last'.op = "movimiento"
             /\ last'.form[1] \in {"SALIDA", "AJUSTE"}
             /\ last'.form[4] > Available(stock, last'.t, last'.form[2]) )
           => /\ <<last'.t, last'.form[2]>> \in DOMAIN stock'
              /\ stock'[<<last'.t, last'.form[2]>>] = 0
              /\ \A k \in DOMAIN stock :
                    k # <<last'.t, last'.form[2]>> => stock'[k] = stock[k]
         ]_vars

\* a SALIDA of more units than the warehouse held (it held some) left it at 0
C11_OversizedSalidaLeftZero ==
    /\ last.op = "movimiento" /\ last.form[1] = "SALIDA"
    /\ last.old > 0 /\ last.form[4] > last.old
    /\ <<last.t, last.form[2]>> \in DOMAIN stock
    /\ stock[<<last.t, last.form[2]>>] = 0

\* C12: a ticket created with a catalog service selected and priority Auto
\* gets the priority of the service_priority_matrix row for (service, urgency,
\* impact) when that row exists, and the global priority_matrix priority
\* otherwise.
C12_ServiceMatrixOverrides ==
    ( /\ last.op = "nuevo" /\ last.ok
      /\ last.form[1] # 0 /\ last.form[5] = "Auto" )
    => tickets[last.t].priority =
          IF <<last.form[1], last.form[3], last.form[4]>> \in DOMAIN service_priority_matrix
          THEN service_priority_matrix[<<last.form[1], last.form[3], last.form[4]>>]
          ELSE IF <<last.form[3], last.form[4]>> \in DOMAIN priority_matrix
               THEN priority_matrix[<<last.form[3], last.form[4]>>]
               ELSE "Media"

\* C13: a newly created ticket has status Abierto, no assignee,
\* response_sla_hours and sla_hours equal to the response_hours and
\* resolution_hours of an active sla_policies row for (its process, its
\* priority), or 4 and 48 when no active row exists for that pair, and due_at
\* equal to created_at plus sla_hours hours.
C13_NewTicketDefaults ==
    (last.op = "nuevo" /\ last.ok)
    => LET t    == tickets[last.t]
           rows == {i \in 1..Len(sla_policies) :
                       /\ sla_policies[i].process = t.itil_type
                       /\ sla_policies[i].priority = t.priority
                       /\ sla_policies[i].active = 1}
       IN  /\ t.status = "Abierto"
           /\ t.assigned_to = 0
           /\ IF rows = {}
              THEN t.response_sla_hours = 4 /\ t.sla_hours = 48
              ELSE \E i \in rows :
                      /\ t.response_sla_hours = sla_policies[i].response_hours
                      /\ t.sla_hours = sla_policies[i].resolution_hours
           /\ t.created_at = now
           /\ t.due_at = t.created_at + t.sla_hours * 60 * 60

\* half an hour after the start, a ticket of process Incidente and priority
\* Media was created in a file whose only policy for that pair is switched
\* off: it got 4 and 48 hours and is due 48 hours after its creation
C13_InactivePolicyIgnored ==
    /\ last.op = "nuevo" /\ last.ok
    /\ sla_policies = <<PolicyOff>>
    /\ tickets[last.t].itil_type = "Incidente" /\ tickets[last.t].priority = "Media"
    /\ tickets[last.t].response_sla_hours = 4 /\ tickets[last.t].sla_hours = 48
    /\ tickets[last.t].created_at = 1800
    /\ tickets[last.t].due_at = 1800 + 172800

\* C14: a ticket created for a catalog service that has an SLA policy
\* assigned (service_catalog.policy_id) gets the response and resolution
\* hours of that policy.
C14_ServicePolicyApplies ==
    ( /\ last.op = "nuevo" /\ last.ok
      /\ last.form[1] # 0
      /\ service_catalog[last.form[1]].policy_id # 0 )
    => LET pol == sla_policies[service_catalog[last.form[1]].policy_id]
       IN  /\ tickets[last.t].response_sla_hours = pol.response_hours
           /\ tickets[last.t].sla_hours = pol.resolution_hours

\* C15: an agent who chooses their own name in "Asignar a (solo tu)" and
\* presses "Guardar cambios" on a ticket whose assigned_to is null gets their
\* id stored in assigned_to, and the ticket's status stays as it was, for
\* every status the ticket may have.
C15_AgentSelfAssigns ==
    [][ ( /\ last'.op = "tray"
          /\ last'.user.role = "agente"
          /\ tickets[last'.t].assigned_to = 0
          /\ last'.arg = last'.user.username )
        => /\ tickets'[last'.t].assigned_to = last'.user.id
           /\ tickets'[last'.t].status = tickets[last'.t].status
      ]_vars

\* C16: an admin, an agent, or the user who created the ticket, submitting a
\* non-empty comment on it, inserts one ticket_comments row for the ticket,
\* whether or not the status or the assignee is changed in the same save.
C16_CommentIsStored ==
    [][ ( /\ last'.op = "tray"
          /\ last'.form[1] # <<>>
          /\ \/ last'.user.role \in {"admin", "agente"}
             \/ tickets[last'.t].created_by = last'.user.id )
        => /\ Len(comments') = Len(comments) + 1
           /\ comments'[Len(comments')] =
                 [ticket_id |-> last'.t, author_id |-> last'.user.id,
                  comment |-> last'.form[1]]
      ]_vars

C18_RiskHeuristic ==
    [][ LET rank(x) == CASE x \in {"Baja", "Bajo"} -> 0
                         [] x \in {"Media", "Medio", ""} -> 1
                         [] x \in {"Alta", "Alto"} -> 2
                         [] x \in {"Critica", "Critico"} -> 3
            score(k) == rank(k.crit) + rank(k.change_impact) + rank(k.priority)
            unruled(k) ==
                \A r \in risk_rules :
                    \/ r.ci_criticality # "" /\ r.ci_criticality # k.crit
                    \/ r.change_impact # "" /\ r.change_impact # k.change_impact
                    \/ r.priority # "" /\ r.priority # k.priority
            raised(k, j) ==
                \/ /\ rank(j.crit) > rank(k.crit)
                   /\ j.change_impact = k.change_impact /\ j.priority = k.priority
                \/ /\ rank(j.change_impact) > rank(k.change_impact)
                   /\ j.crit = k.crit /\ j.priority = k.priority
                \/ /\ rank(j.priority) > rank(k.priority)
                   /\ j.crit = k.crit /\ j.change_impact = k.change_impact
        IN  /\ (last'.op = "risk" /\ unruled(risk'))
                  => risk'.result = IF score(risk') >= 7 THEN "Alto"
                                    ELSE IF score(risk') >= 5 THEN "Medio"
                                    ELSE "Bajo"
            /\ ( /\ last'.op = "risk" /\ risk # NoRisk
                 /\ unruled(risk) /\ unruled(risk') /\ raised(risk, risk') )
                  => rank(risk'.result) >= rank(risk.result)
      ]_vars

\* without CI, impact Critico and priority Critica make 7: the estimate is
\* Alto while a rule for another combination is in the table
C18_SevenWithoutCiIsAlto ==
    /\ risk.crit = "" /\ risk.change_impact = "Critico" /\ risk.priority = "Critica"
    /\ risk.result = "Alto"
    /\ risk_rules # {}

\* C19: _retry_migrating(fn) terminates and calls fn at most twice: it returns
\* fn's result when the first call succeeds; when the first call raises an
\* error whose text contains "no such column", "has no column" or "no such
\* table" it runs migrate_schema exactly once and calls fn once more,
\* propagating a second failure; any other error propagates without running
\* migrate_schema. The bound holds although migrate_schema issues its own
\* statements through run_query and run_script.
C19_RetryOnceAfterMigration ==
    /\ [](call.fn_calls <= 2 /\ call.migrations <= 1)
    /\ []( (call.stack = <<>> /\ call.stmt # "")
           => IF call.first = <<>>
              THEN /\ call.fn_calls = 1 /\ call.migrations = 0
                   /\ call.outcome = "returned"
              ELSE IF \E i \in 1..Len(call.first) - 2 :
                         SubSeq(call.first, i, i + 2)
                            \in { <<"no", "such", "column">>, <<"has", "no", "column">>,
                                  <<"no", "such", "table">> }
              THEN /\ call.fn_calls = 2 /\ call.migrations = 1
                   /\ IF call.second = <<>> THEN call.outcome = "returned"
                      ELSE call.outcome = "raised" /\ call.error = call.second
              ELSE /\ call.fn_calls = 1 /\ call.migrations = 0
                   /\ call.outcome = "raised" /\ call.error = call.first )
    /\ ((call.stack # <<>>) ~> (call.stack = <<>>))

\* the query of tickets failed on a file without catalog_id, migrate_schema
\* added the columns and filled the settings through run_query and run_script,
\* and the second call returned
C19_SecondCallReturned ==
    /\ call.stack = <<>> /\ call.stmt = "select_tickets"
    /\ call.first # <<>> /\ call.fn_calls = 2 /\ call.migrations = 1
    /\ call.outcome = "returned"
    /\ <<"tickets", "catalog_id">> \in schema.columns
    /\ DOMAIN settings = DOMAIN SMTP_DEFAULTS

\* C20: init_db is idempotent after the first run: after any run, another
\* init_db would leave every table as it is; the seed rows are inserted only
\* while the users table is empty, and a settings key that already exists is
\* never overwritten with its default (its value changes only to the value an
\* admin saved in the form).
C20_InitDbIdempotent ==
    [][ /\ last'.op # "init"
            => /\ init_db(Db') = Db'
               /\ \A salt \in Salts : InitDbUsers(users', salt) = users'
        /\ Len(users) > 0
            => /\ priority_matrix' = priority_matrix /\ masters' = masters
               /\ sla_policies' # sla_policies
                    => /\ last'.op = "add_sla"
                       /\ SubSeq(sla_policies', 1, Len(sla_policies)) = sla_policies
                       /\ Len(sla_policies') = Len(sla_policies) + 1
        /\ \A k \in DOMAIN settings :
              /\ k \in DOMAIN settings'
              /\ settings'[k] # settings[k]
                    => last'.op = "smtp_form" /\ last'.form = <<k, settings'[k]>>
      ]_vars

\* the first run seeded an empty file, the admin changed the SMTP server, and
\* the value is still there after a later run that handled no form
C20_SavedSettingSurvivedRun ==
    /\ last.op = "page"
    /\ Len(users) = 1 /\ sla_policies = SeedPolicies
    /\ settings["smtp_server"] = "mail.example.org"
    /\ SMTP_DEFAULTS["smtp_server"] # "mail.example.org"
    /\ DOMAIN settings = DOMAIN SMTP_DEFAULTS

\* C21: ticket codes are unique and creation does not fail on them: "Crear
\* Ticket" with a title always inserts a ticket whose code TCK-<date>-<number
\* of the day's tickets + 1> differs from the code of every existing ticket,
\* also when two sessions submit at the same time.
C21_CodesUniqueAndInserted ==
    /\ [](\A i, j \in 1..Len(tickets) : tickets[i].code = tickets[j].code => i = j)
    /\ [][ last'.op = "nuevo_insert"
             => /\ last'.ok
                /\ Len(tickets') = Len(tickets) + 1
                /\ \A i \in 1..Len(tickets) : tickets[i].code # tickets'[Len(tickets')].code
       ]_vars

\* C22: an approval is decided at most once: once a change_approvals row has
\* left status Pendiente, its status, approver, comment and decided_at never
\* change again, also when two sessions had the same pending row open and both
\* press "Enviar decision".
C22_DecidedOnce ==
    [][ \A j \in 1..Len(approvals) :
            approvals[j].status # "Pendiente"
            => /\ approvals'[j].status = approvals[j].status
               /\ approvals'[j].approver = approvals[j].approver
               /\ approvals'[j].comment = approvals[j].comment
               /\ approvals'[j].decided_at = approvals[j].decided_at
      ]_vars

\* C23: no stock update is lost: every call of adjust_stock with a delta that
\* keeps the quantity non-negative ends with the stored qty being the qty
\* stored just before its write plus its delta, so that after two calls with
\* d1 and d2 on the same (product, warehouse) the qty is the initial qty + d1
\* + d2, for every interleaving of the calls' read and write steps.
C23_NoLostStockUpdate ==
    (last.op = "stock_write" /\ last.old + last.form[2] >= 0)
    => last.ok /\ last.new = last.old + last.form[2]

\* C24: the resolution-SLA compliance of the report agrees with the ticket's
\* deadline: a ticket whose resolved_at is not later than its due_at is
\* counted as within SLA (ok_res true), also after its deadline was moved
\* later with "Ajustar SLA resolucion (+h)".
C24_ReportAgreesWithDeadline ==
    last.op = "report"
    => \A t \in 1..Len(tickets) :
          (tickets[t].resolved_at # <<>> /\ tickets[t].resolved_at[1] <= tickets[t].due_at)
          => last.form[t]

=============================================================================
